---------------------------- MODULE Spec2Model ----------------------------
(***************************************************************************)
(* Reactive Components (src/reactive.js): a component couples a state      *)
(* store (_state), an effect registry (Reactive.EffectHandler), a template *)
(* and a live DOM tree that render/copyNode patch in place.                *)
(*                                                                         *)
(* JavaScript objects and DOM nodes have identity, so both live in heaps   *)
(* (objs, nodes) indexed by ids; id 0 is "no object" (undefined / null).   *)
(* Every library function is an operator from a world record (the value of *)
(* all variables) to a world record, so that a handler and everything it   *)
(* calls synchronously is one action.                                      *)
(***************************************************************************)
EXTENDS Integers, Sequences, FiniteSets, TLC

VARIABLES
  template,  \* componentConfig.template of the factory: a template id
  initialState, \* componentConfig.initialState: the id of that object
  definitions, \* componentConfig.definitions: "none", "callable" or "binding"
  events0,   \* componentConfig.events: the ids of the configured bindings
  bindings,  \* heap of binding entries {type, listener, selector, _listener}
  objs,      \* heap of plain JS objects: id -> [PropNames -> value]
  _state,    \* component -> id of the object `s` its state store closes over
  _props,    \* component -> this._props
  element,   \* component -> id of this.element (0 before the first render)
  events,    \* component -> this.events, the bindings list
  al,        \* component -> `al` of its EffectHandler: key -> listeners
  globals,   \* component -> `globals` of its EffectHandler
  nodes,     \* heap of DOM nodes
  snap,      \* id of the state snapshot the caller holds (0: none)
  op,        \* history: the call the environment made last
  log,       \* history: listener and template invocations made by that call
  err,       \* history: the error that call raised ("none" if it returned)
  threw,     \* history: component -> one of its effects has raised an error
  firstKey,  \* history: component -> the key its first per-key effect is for
  replaced   \* history: component -> the renders that replaced its root while
             \* it had bindings, counted up to MaxRoots

vars == <<template, initialState, definitions, events0, bindings, objs, _state,
          _props, element, events, al, globals, nodes, snap, op, log, err, threw,
          firstKey, replaced>>

-----------------------------------------------------------------------------
(* Bounds of the model *)

\* numbers used as state values are 0..MaxNum
MaxNum == 1
\* at most MaxEffects listeners in one list of an effect registry
MaxEffects == 2
\* at most MaxBindings bindings in the events list of a component
MaxBindings == 2
\* the replacements of the root of a component are counted up to MaxRoots
MaxRoots == 3
\* the children of an element of the trees copyNode is called with directly
MaxKids == 2
\* the calls of setState that can be running inside one another before the
\* call stack of the engine is exhausted
MaxDepth == 3

-----------------------------------------------------------------------------
(* JavaScript values *)

Num(n) == [t |-> "num", v |-> n]
Undefined == [t |-> "undef", v |-> 0]
\* what reading a property the object does not own finds
Absent == [t |-> "absent", v |-> 0]
Ref(i) == [t |-> "ref", v |-> i]

\* property names: the state keys a and b, a key z no initial state has, and
\* the field x of a structured state value {x: n}
PropNames == {"a", "b", "z", "x"}
PropOrder == <<"a", "b", "z", "x">>

EmptyObject == [p \in PropNames |-> Absent]
\* an object or mapping without any key
EmptyMap == [p \in {} |-> Absent]

\* the id a newly created object or node gets: the smallest one not in use
FreshId(used) ==
  CHOOSE i \in 1..(Cardinality(used) + 1) :
    i \notin used /\ \A j \in 1..(i - 1) : j \in used

hasOwnProperty(h, o, key) == h[o][key] # Absent

\* what the expression o[key] evaluates to
Read(h, o, key) == IF hasOwnProperty(h, o, key) THEN h[o][key] ELSE Undefined

\* { ...o }: a new object with o's own properties; nested objects are shared
Spread(h, o) ==
  LET new == FreshId(DOMAIN h)
  IN  [h |-> h @@ (new :> h[o]), v |-> new]

\* JSON.parse(JSON.stringify(o)) of a plain object: a new object; a numeric
\* property is kept, an object-valued one is converted recursively, and a
\* property whose value is undefined is left out
RECURSIVE JSONRoundTrip(_, _)
RECURSIVE JSONProps(_, _, _, _)
JSONProps(h, src, dst, i) ==
  IF i > Len(PropOrder) THEN h
  ELSE LET p == PropOrder[i]
           val == h[src][p]
       IN  IF val.t = "num"
             THEN JSONProps([h EXCEPT ![dst][p] = val], src, dst, i + 1)
           ELSE IF val.t = "ref"
             THEN LET r == JSONRoundTrip(h, val.v)
                  IN  JSONProps([r.h EXCEPT ![dst][p] = Ref(r.v)], src, dst, i + 1)
           ELSE JSONProps(h, src, dst, i + 1)

JSONRoundTrip(h, o) ==
  LET new == FreshId(DOMAIN h)
  IN  [h |-> JSONProps(h @@ (new :> EmptyObject), o, new, 1), v |-> new]

\* the own keys of an object
Keys(h, o) == {p \in PropNames : hasOwnProperty(h, o, p)}

\* the contents of a value, without the identity of the objects in it
RECURSIVE Contents(_, _)
Contents(h, val) ==
  IF val.t = "ref"
    THEN [p \in Keys(h, val.v) |-> Contents(h, h[val.v][p])]
    ELSE val

-----------------------------------------------------------------------------
(* _state: the state store *)

\* let s = { ...state }
StoreShared(h, state) == [h |-> h, v |-> state]
_stateNew(h, state) == Spread(h, state)

\* value: () => JSON.parse(JSON.stringify(s))
valueShallow(h, s) == Spread(h, s)
value(h, s) == JSONRoundTrip(h, s)

\* change: (key, value) => ...; r is the returned boolean
changeAddsKey(h, s, key, val) ==
  [h |-> [h EXCEPT ![s][key] = val], r |-> Read(h, s, key) # val]
changeByContents(h, s, key, val) ==
  IF hasOwnProperty(h, s, key)
    THEN [h |-> [h EXCEPT ![s][key] = val],
          r |-> Contents(h, h[s][key]) # Contents(h, val)]
    ELSE [h |-> h, r |-> FALSE]
change(h, s, key, val) ==
  IF hasOwnProperty(h, s, key)
    THEN [h |-> [h EXCEPT ![s][key] = val], r |-> h[s][key] # val]
    ELSE [h |-> h, r |-> FALSE]

-----------------------------------------------------------------------------
(* The DOM: element and text nodes *)

\* the component instances; a node's `component` expando names its owner
Comps == {"c1", "c2"}
NoComp == ""

AttrNames == {"class", "value"}
NoAttr == "(no attribute)"
NoAttrs == [n \in AttrNames |-> NoAttr]
TEXT_NODE == "#text"

\* a node as a template describes it: tag, attributes, children, text
El(tag, attrs, kids) == [tag |-> tag, attrs |-> attrs, kids |-> kids, text |-> ""]
Text(data) == [tag |-> TEXT_NODE, attrs |-> NoAttrs, kids |-> <<>>, text |-> data]

\* document.createElement / createTextNode and appendChild for a whole
\* description: the nodes a call of the template creates
RECURSIVE Instantiate(_, _, _)
RECURSIVE InstantiateKids(_, _, _, _)
InstantiateKids(ns, trees, i, parent) ==
  IF i > Len(trees) THEN ns
  ELSE LET r == Instantiate(ns, trees[i], parent)
       IN  InstantiateKids([r.n EXCEPT ![parent].kids = Append(@, r.v)],
                           trees, i + 1, parent)

Instantiate(ns, tree, parent) ==
  LET new == FreshId(DOMAIN ns)
      node == [tag |-> tree.tag, attrs |-> tree.attrs, kids |-> <<>>,
               text |-> tree.text, parent |-> parent, component |-> NoComp,
               value |-> tree.attrs["value"], listeners |-> {}]
  IN  [n |-> InstantiateKids(ns @@ (new :> node), tree.kids, 1, new), v |-> new]

\* what isEqualNode compares: tag, attributes, text and the children, not
\* the identity of nodes, their owner, value property or listeners
RECURSIVE Struct(_, _)
Struct(ns, id) ==
  [tag |-> ns[id].tag, attrs |-> ns[id].attrs, text |-> ns[id].text,
   kids |-> [i \in 1..Len(ns[id].kids) |-> Struct(ns, ns[id].kids[i])]]

isEqualNode(ns, a, b) == Struct(ns, a) = Struct(ns, b)

IndexOf(seq, x) == CHOOSE i \in 1..Len(seq) : seq[i] = x
Without(seq, x) == SelectSeq(seq, LAMBDA y : y # x)

\* detach a node from its parent, if it has one
keepAttached(ns, id) == ns
Detach(ns, id) ==
  IF ns[id].parent = 0 THEN ns
  ELSE [ns EXCEPT ![ns[id].parent].kids = Without(@, id), ![id].parent = 0]


appendChild(ns, parent, child) ==
  LET d == Detach(ns, child)
  IN  [d EXCEPT ![parent].kids = Append(@, child), ![child].parent = parent]

\* into.replaceWith(node): nothing happens to the tree when into has no parent
replaceWith(ns, into, node) ==
  IF ns[into].parent = 0 THEN ns
  ELSE LET par == ns[into].parent
           d == Detach(ns, node)
       IN  [d EXCEPT ![par].kids = [@ EXCEPT ![IndexOf(@, into)] = node],
                     ![node].parent = par,
                     ![into].parent = 0]

\* val.cloneNode(true): copies tag, attributes, text, the value and the
\* subtree; not the owner tag (an expando) and not the listeners
RECURSIVE cloneNode(_, _, _)
RECURSIVE cloneKids(_, _, _, _)
cloneKids(ns, kids, i, parent) ==
  IF i > Len(kids) THEN ns
  ELSE LET r == cloneNode(ns, kids[i], parent)
       IN  cloneKids([r.n EXCEPT ![parent].kids = Append(@, r.v)], kids, i + 1, parent)

cloneNode(ns, id, parent) ==
  LET new == FreshId(DOMAIN ns)
      node == [ns[id] EXCEPT !.kids = <<>>, !.parent = parent,
                              !.component = NoComp, !.listeners = {}]
  IN  [n |-> cloneKids(ns @@ (new :> node), ns[id].kids, 1, new), v |-> new]

getAttributeNames(ns, id) == {n \in AttrNames : ns[id].attrs[n] # NoAttr}

\* a node and its ancestors, the node first
RECURSIVE Path(_, _)
Path(ns, n) == IF n = 0 THEN <<>> ELSE <<n>> \o Path(ns, ns[n].parent)

\* the component a node belongs to: the one that marks the node or its
\* nearest marked ancestor (newTemp.component = this of render)
RECURSIVE Owner(_, _)
Owner(ns, n) ==
  IF n = 0 THEN NoComp
  ELSE IF ns[n].component # NoComp THEN ns[n].component
  ELSE Owner(ns, ns[n].parent)

-----------------------------------------------------------------------------
(* The world: the value of every variable, threaded through the calls *)

World ==
  [template |-> template, initialState |-> initialState,
   definitions |-> definitions, events0 |-> events0, bindings |-> bindings,
   objs |-> objs, _state |-> _state, _props |-> _props,
   element |-> element, events |-> events, al |-> al, globals |-> globals,
   nodes |-> nodes, snap |-> snap, log |-> log, err |-> err,
   old |-> [c \in Comps |-> EmptyMap], depth |-> 0]

\* the functions callers register as effects: f and g record that they ran,
\* boom raises an error when it is called
Listeners == {"f", "g"}
Thrower == "boom"
\* a value that is not a function, which a caller passes as an effect
NotCallable == "not a function"

\* the action left out of a call of remove, removeGlobal, offChangeState or
\* offChangeAny: the default value false
NoAction == ""
\* functions that unsubscribe when they are called as effects of a component
\* c: dropF is () => c.offChangeState("a", f), clearA is
\* () => c.offChangeState("a"), dropAnyF is () => c.offChangeAny(f) and
\* clearAny is () => c.offChangeAny()
Removers == {"dropF", "clearA", "dropAnyF", "clearAny"}

-----------------------------------------------------------------------------
(* The templates a factory can be configured with *)

Show(val) ==
  IF val.t = "num" THEN ToString(val.v)
  ELSE IF val.t = "ref" THEN "[object Object]"
  ELSE "undefined"

\* template "counter": <span>{state.a}</span>
\* template "form":
\*   <div|p class={state.b or state.b.x}> {state.a} [<input value={props.p}>]
\*     [<b>{state.b.x}</b>] </div|p>
\* the root is a <p> when state.a is 1, the class is left out when state.b
\* is undefined, the <input> is there when props has p, the <b> when state.b
\* is an object

TemplateTree(tid, h, st, props) ==
  LET a == Read(h, st, "a")
      b == Read(h, st, "b")
      bx == IF b.t = "ref" THEN Read(h, b.v, "x") ELSE b
  IN  IF tid = "counter"
        THEN El("span", NoAttrs, <<Text(Show(a))>>)
        ELSE El(IF a = Num(1) THEN "p" ELSE "div",
                [NoAttrs EXCEPT !["class"] =
                   IF b.t = "undef" THEN NoAttr ELSE Show(bx)],
                <<Text(Show(a))>>
                \o (IF "p" \in DOMAIN props
                      THEN <<El("input", [NoAttrs EXCEPT !["value"] = props["p"]], <<>>)>>
                      ELSE <<>>)
                \o (IF b.t = "ref"
                      THEN <<El("b", NoAttrs, <<Text(Show(bx))>>)>>
                      ELSE <<>>))

-----------------------------------------------------------------------------
(* Reactive.Component.prototype *)

\* the wrapper putEvents caches in current._listener: a closure over the
\* component and the entry; id tells two closures apart, 0 is no wrapper
NoWrapper == [id |-> 0, this |-> NoComp, listener |-> "", selector |-> ""]
WrapperIds(w) ==
  {w.bindings[e]._listener.id : e \in DOMAIN w.bindings}
    \cup UNION {{l.fn.id : l \in w.nodes[n].listeners} : n \in DOMAIN w.nodes}

\* history: putEvents registered the wrapper of a binding on a node; arg
\* says whether the wrapper was made now or was the cached one
BindEntry(this, current, how) ==
  [ev |-> "bind", c |-> this, key |-> current.type, fn |-> current.listener,
   arg |-> <<how>>]

\* if (!current._listener) current._listener = ...: the wrapper is made
\* once for a binding and kept in it
newWrapper(w, this, current) ==
  [id |-> FreshId(WrapperIds(w) \ {0}), this |-> this,
   listener |-> current.listener, selector |-> current.selector]
wrapperOf(w, this, current) ==
  IF current._listener = NoWrapper THEN newWrapper(w, this, current)
  ELSE current._listener

\* putEvents: function (el = this.element)
RECURSIVE putEventsFrom(_, _, _, _)
putEventsFrom(w, this, el, i) ==
  IF i > Len(w.events[this]) THEN w
  ELSE LET e == w.events[this][i]
           current == w.bindings[e]
           fn == wrapperOf(w, this, current)
           how == IF current._listener = NoWrapper THEN "new" ELSE "cached"
           w1 == [w EXCEPT !.bindings[e]._listener = fn,
                           !.nodes[el].listeners =
                              @ \cup {[type |-> current.type, fn |-> fn]},
                           !.log = Append(@, BindEntry(this, current, how))]
       IN  putEventsFrom(w1, this, el, i + 1)

putNoEvents(w, this, el) == w
putEvents(w, this, el) == putEventsFrom(w, this, el, 1)

\* copyNode, lines 280-285: delete the children into has beyond node's count
keepSurplusChildren(ns, into, node) == ns
removeSurplusChildren(ns, into, node) ==
  LET l == Len(ns[node].kids)
      kids == ns[into].kids
  IN  IF Len(kids) > l
        THEN [id \in DOMAIN ns |->
                IF id = into THEN [ns[id] EXCEPT !.kids = SubSeq(kids, 1, l)]
                ELSE IF \E i \in (l + 1)..Len(kids) : kids[i] = id
                  THEN [ns[id] EXCEPT !.parent = 0]
                ELSE ns[id]]
        ELSE ns

\* copyNode, lines 287-290: remove the attributes node does not have
keepStaleAttributes(ns, into, node) == ns
removeStaleAttributes(ns, into, node) ==
  [ns EXCEPT ![into].attrs =
     [n \in AttrNames |->
        IF n \in getAttributeNames(ns, into) \ getAttributeNames(ns, node)
          THEN NoAttr ELSE @[n]]]

\* copyNode, lines 301-306: write node's attributes (and the value property)
writeAttributes(ns, into, node) ==
  [ns EXCEPT ![into].attrs =
     [n \in AttrNames |->
        IF n \in getAttributeNames(ns, node) THEN ns[node].attrs[n] ELSE @[n]],
             ![into].value =
        IF "value" \in getAttributeNames(ns, node)
          THEN ns[node].attrs["value"] ELSE @]

\* copyNode, lines 264-265: nodeType === Node.TEXT_NODE
neverTextNode(ns, id) == FALSE
isTextNode(ns, id) == ns[id].tag = TEXT_NODE

\* copyNode, line 266: (into.component && !node.component)
notOwned(ns, into, node) == FALSE
ownedInto(ns, into, node) ==
  ns[into].component # NoComp /\ ns[node].component = NoComp

\* history: copyNode of this changes the attributes and the children of
\* into, a node that belongs to the component key
ReconcileEntry(ns, this, into) ==
  [ev |-> "reconcile", c |-> this, key |-> Owner(ns, into), fn |-> "", arg |-> <<>>]
\* history: copyNode of this puts node in the place of into, a node marked
\* by the component key; arg says whether the two have the same tag
SwapEntries(ns, this, into, node) ==
  IF ns[into].component = NoComp THEN <<>>
  ELSE <<[ev |-> "swap", c |-> this, key |-> ns[into].component, fn |-> "",
          arg |-> <<ns[into].tag = ns[node].tag>>]>>

\* copyNode, line 295:
\* into.appendChild(val.component ? val : val.cloneNode(true))
appendItself(ns, into, val) == appendChild(ns, into, val)
appendNew(ns, into, val) ==
  IF ns[val].component # NoComp THEN appendChild(ns, into, val)
  ELSE LET r == cloneNode(ns, val, 0)
       IN  appendChild(r.n, into, r.v)

\* copyNode: function (into, node); v is the node it returns
RECURSIVE copyNode(_, _, _, _)
RECURSIVE mergeChildren(_, _, _, _, _)
\* lines 292-299, Array.from(node.childNodes).forEach((val, index) => ...)
mergeChildren(w, this, into, vals, index) ==
  IF index > Len(vals) THEN w
  ELSE LET val == vals[index]
           kids == w.nodes[into].kids
       IN  IF index > Len(kids)
             THEN mergeChildren([w EXCEPT !.nodes = appendNew(@, into, val)],
                                this, into, vals, index + 1)
             ELSE mergeChildren(copyNode(w, this, kids[index], val).w,
                                this, into, vals, index + 1)

copyNode(w, this, into, node) ==
  LET ns == w.nodes
  IN  IF into = node THEN [w |-> w, v |-> into]
      ELSE IF \/ ns[into].tag # ns[node].tag
              \/ isTextNode(ns, into)
              \/ isTextNode(ns, node)
              \/ ownedInto(ns, into, node)
        THEN [w |-> [w EXCEPT !.nodes = replaceWith(@, into, node),
                              !.log = @ \o SwapEntries(ns, this, into, node)],
              v |-> node]
      ELSE IF ns[node].component # NoComp
              /\ ns[into].component # ns[node].component
        THEN [w |-> putEvents([w EXCEPT !.nodes = replaceWith(@, into, node),
                                        !.log = @ \o SwapEntries(ns, this, into, node)],
                              ns[node].component, node),
              v |-> node]
      ELSE IF isEqualNode(ns, into, node) THEN [w |-> w, v |-> into]
      ELSE LET n1 == removeSurplusChildren(ns, into, node)
               n2 == removeStaleAttributes(n1, into, node)
               w3 == mergeChildren([w EXCEPT !.nodes = n2,
                                             !.log = Append(@, ReconcileEntry(ns, this, into))],
                                   this, into, n2[node].kids, 1)
           IN  [w |-> [w3 EXCEPT !.nodes = writeAttributes(@, into, node)],
                v |-> into]

\* history: a call of the template, with the props it read
TemplateEntry(this, props) ==
  [ev |-> "template", c |-> this, key |-> "", fn |-> "", arg |-> <<props>>]
\* history: what a render did to this.element: "mount" (the first tree is
\* adopted), "patch" (copyNode returned the live root) or "replace" (copyNode
\* returned another node, which is the live root from now on)
RenderEntry(this, what) ==
  [ev |-> what, c |-> this, key |-> "", fn |-> "", arg |-> <<>>]

\* this.template(this): the template reads this.state and this.props and
\* builds a new tree
PlainTemplate(w, this, tid) ==
  LET st == value(w.objs, w._state[this])
      tree == TemplateTree(tid, st.h, st.v, w._props[this])
      r == Instantiate(w.nodes, tree, 0)
  IN  [w |-> [w EXCEPT !.objs = st.h, !.nodes = r.n,
                       !.log = Append(@, TemplateEntry(this, w._props[this]))],
       v |-> r.v]

\* template "nest", the template of a parent c1 that shows the child c2, a
\* component with the template "form":
\*   state.a = 0, state.b = 0:  <div> {c2.get({})} </div>
\*   state.a = 0, state.b = 1:  <div> 1 {c2.get({})} </div>
\*   state.a = 1, state.b = 0:  <div> <section> {c2.get({})} </section> </div>
\*   state.a = 1, state.b = 1:  <div> <p>x</p> </div>
\* the root c2.get returns is appended to the new tree: appendChild takes it
\* from the place it has
\* return this.element of get: the world and the root of this
rootOf(w, this) == [w |-> w, v |-> w.element[this]]

\* render, lines 248-257: what render does with the tree t.v that the
\* template returned
keepUnmounted(w, this, t) == [t.w EXCEPT !.nodes[t.v].component = this]
renderTree(w, this, t) ==
  LET newTemp == t.v
      w1 == [t.w EXCEPT !.nodes[newTemp].component = this]
      el == w1.element[this]
  IN  IF el = 0 \/ ~isEqualNode(w1.nodes, el, newTemp)
        THEN LET r == IF el # 0 THEN copyNode(w1, this, el, newTemp)
                      ELSE [w |-> w1, v |-> newTemp]
                 w2 == [r.w EXCEPT !.element[this] = r.v,
                                   !.nodes[r.v].component = this]
                 what == IF el = 0 THEN "mount"
                         ELSE IF r.v = el THEN "patch" ELSE "replace"
             IN  putEvents([w2 EXCEPT !.log = Append(@, RenderEntry(this, what))],
                           this, r.v)
        ELSE w1

NestParent == "c1"
NestChild == "c2"
\* c2.get({}): the props of the child, its render with its own template,
\* and its root
getChild(w) ==
  LET w0 == [w EXCEPT !._props[NestChild] = EmptyMap]
  IN  rootOf(renderTree(w0, NestChild, PlainTemplate(w0, NestChild, "form")),
             NestChild)
\* create("div", {}, [...]) around the root g.v of the child: r is the new
\* tree without the child
nestShow(g, r, a) ==
  [w |-> [g.w EXCEPT !.nodes =
            appendChild(r.n, IF a = Num(1) THEN r.n[r.v].kids[1] ELSE r.v, g.v)],
   v |-> r.v]
nestBuild(g, a, b) ==
  nestShow(g,
           Instantiate(g.w.nodes,
                       El("div", NoAttrs,
                          IF a = Num(1) THEN <<El("section", NoAttrs, <<>>)>>
                          ELSE IF b = Num(1) THEN <<Text("1")>>
                          ELSE <<>>), 0),
           a)
NestTemplate(w, this) ==
  LET st == value(w.objs, w._state[this])
      a == Read(st.h, st.v, "a")
      b == Read(st.h, st.v, "b")
      w0 == [w EXCEPT !.objs = st.h,
                      !.log = Append(@, TemplateEntry(this, w._props[this]))]
  IN  IF a = Num(1) /\ b = Num(1)
        THEN LET r == Instantiate(w0.nodes,
                        El("div", NoAttrs, <<El("p", NoAttrs, <<Text("x")>>)>>), 0)
             IN  [w |-> [w0 EXCEPT !.nodes = r.n], v |-> r.v]
        ELSE nestBuild(getChild(w0), a, b)

CallTemplate(w, this) ==
  IF w.template = "nest"
    THEN IF this = NestParent THEN NestTemplate(w, this)
         ELSE PlainTemplate(w, this, "form")
    ELSE PlainTemplate(w, this, w.template)

\* render: function ()
render(w, this) == renderTree(w, this, CallTemplate(w, this))

-----------------------------------------------------------------------------
(* Reactive.EffectHandler *)

\* the test `!action instanceof Function` of add and addGlobal: the negation
\* applies to action first, and a boolean is never an instance of Function
NotInstanceofFunction(action) == FALSE

\* add = (key, action) => ...
add(w, this, key, action) ==
  IF NotInstanceofFunction(action) THEN [w EXCEPT !.err = "TypeError"]
  ELSE [w EXCEPT !.al[this] =
          IF key \in DOMAIN @ THEN [@ EXCEPT ![key] = Append(@, action)]
          ELSE @ @@ (key :> <<action>>)]

\* addGlobal = (action) => ...
addGlobal(w, this, action) ==
  IF NotInstanceofFunction(action) THEN [w EXCEPT !.err = "TypeError"]
  ELSE [w EXCEPT !.globals[this] = Append(@, action)]

\* array.indexOf(x), counted from 1: the first index that holds x, 0 for none
indexOf(seq, x) ==
  LET found == {i \in 1..Len(seq) : seq[i] = x}
  IN  IF found = {} THEN 0 ELSE CHOOSE i \in found : \A j \in found : i <= j

\* array.splice(i, 1), in place
splice(seq, i) == SubSeq(seq, 1, i - 1) \o SubSeq(seq, i + 1, Len(seq))

\* the arrays al[key] held before remove(key) put a new array in their
\* place, oldest first: a forEach that began on one of them runs on over it
Detached(w, this, key) ==
  IF key \in DOMAIN w.old[this] THEN w.old[this][key] ELSE <<>>

\* the history keeps each removal, with the listeners the list holds after
\* it; the key "" stands for the global list
RemoveEntry(this, key, action, rest) ==
  [ev |-> "remove", c |-> this, key |-> key, fn |-> action, arg |-> rest]

\* remove = (key, action = false) => ...
removeEvery(w, this, key, action) ==
  IF key \notin DOMAIN w.al[this] THEN [w |-> w, v |-> FALSE]
  ELSE [w |-> [w EXCEPT !.al[this][key] = SelectSeq(@, LAMBDA a : a # action)],
        v |-> indexOf(w.al[this][key], action) > 0]
removeIfAny(w, this, key, action) ==
  IF key \notin DOMAIN w.al[this] THEN [w |-> w, v |-> FALSE]
  ELSE [w |-> [w EXCEPT !.al[this][key] = <<>>], v |-> w.al[this][key] # <<>>]
removeInPlace(w, this, key, action) ==
  IF key \notin DOMAIN w.al[this] THEN [w |-> w, v |-> FALSE]
  ELSE IF action = NoAction
    THEN [w |-> [w EXCEPT !.al[this][key] = <<>>], v |-> TRUE]
    ELSE LET i == indexOf(w.al[this][key], action)
         IN  IF i > 0
               THEN [w |-> [w EXCEPT !.al[this][key] = splice(@, i)], v |-> TRUE]
               ELSE [w |-> w, v |-> FALSE]
remove(w, this, key, action) ==
  IF key \notin DOMAIN w.al[this] THEN [w |-> w, v |-> FALSE]
  ELSE IF action = NoAction
    THEN [w |-> [w EXCEPT !.al[this][key] = <<>>,
                          !.old[this] =
                            (key :> Append(Detached(w, this, key), w.al[this][key])) @@ @,
                          !.log = Append(@, RemoveEntry(this, key, action, <<>>))],
          v |-> TRUE]
    ELSE LET i == indexOf(w.al[this][key], action)
         IN  IF i > 0
               THEN [w |-> [w EXCEPT !.al[this][key] = splice(@, i),
                                     !.log = Append(@, RemoveEntry(this, key, action,
                                                                   splice(w.al[this][key], i)))],
                     v |-> TRUE]
               ELSE [w |-> w, v |-> FALSE]

\* removeGlobal = (action = false) => ...
removeGlobal(w, this, action) ==
  IF action = NoAction
    THEN [w |-> [w EXCEPT !.globals[this] = <<>>,
                          !.log = Append(@, RemoveEntry(this, "", action, <<>>))],
          v |-> Len(w.globals[this]) > 0]
    ELSE LET i == indexOf(w.globals[this], action)
         IN  IF i > 0
               THEN [w |-> [w EXCEPT !.globals[this] = splice(@, i),
                                     !.log = Append(@, RemoveEntry(this, "", action,
                                                                   splice(w.globals[this], i)))],
                     v |-> TRUE]
               ELSE [w |-> w, v |-> FALSE]

\* offChangeState: function (key, action = false)
offChangeState(w, this, key, action) == remove(w, this, key, action)
\* offChangeAny: function (action = false)
offChangeAny(w, this, action) == removeGlobal(w, this, action)

\* history: a function registered as an effect calls setState of the
\* component c ("call") and the call returns ("return"); arg says whether
\* the store of c holds another value for the key than the one passed
NestedEntry(c, what, fn, changes) ==
  [ev |-> what, c |-> c, key |-> "", fn |-> fn, arg |-> <<changes>>]
\* history: a function registered as an effect of c read c.state and found
\* the contents seen
PeekEntry(c, fn, seen) ==
  [ev |-> "peek", c |-> c, key |-> "", fn |-> fn, arg |-> <<seen>>]

\* the other one of the two components
Other(c) == IF c = "c1" THEN "c2" ELSE "c1"

RECURSIVE setState(_, _, _)
\* target.setState(newState) called by a function that setState called: the
\* call stack has room for MaxDepth such calls, the next one is a RangeError
\* (Maximum call stack size exceeded)
skippedSetState(w, target, newState, fn) ==
  LET changes == Read(w.objs, w._state[target], newState[1].key) # newState[1].val
  IN  [w EXCEPT !.log = @ \o <<NestedEntry(target, "call", fn, changes),
                                NestedEntry(target, "return", fn, changes)>>]
nestedSetState(w, target, newState, fn) ==
  LET changes == Read(w.objs, w._state[target], newState[1].key) # newState[1].val
  IN  IF w.depth >= MaxDepth THEN [w EXCEPT !.err = "RangeError"]
      ELSE LET w1 == setState([w EXCEPT !.depth = @ + 1,
                                        !.log = Append(@, NestedEntry(target, "call",
                                                                      fn, changes))],
                              target, newState)
           IN  IF w1.err # "none" THEN [w1 EXCEPT !.depth = w.depth]
               ELSE [w1 EXCEPT !.depth = w.depth,
                               !.log = Append(@, NestedEntry(target, "return",
                                                             fn, changes))]

\* const s = c.state; other.setState({b: s.b})
mirrorState(w, c, fn) ==
  LET r == value(w.objs, w._state[c])
  IN  nestedSetState([w EXCEPT !.objs = r.h], Other(c),
                     <<[key |-> "b", val |-> Read(r.h, r.v, "b")]>>, fn)

\* the body of a function registered as an effect of the component c:
\*   dropF    () => c.offChangeState("a", f)
\*   clearA   () => c.offChangeState("a")
\*   dropAnyF () => c.offChangeAny(f)
\*   clearAny () => c.offChangeAny()
\*   setB     () => c.setState({b: 1})
\*   peek     () => seen.push(c.state)
\*   mirror   () => other.setState({b: c.state.b})
Body(w, c, fn) ==
  CASE fn = "dropF" -> offChangeState(w, c, "a", "f").w
    [] fn = "clearA" -> offChangeState(w, c, "a", NoAction).w
    [] fn = "dropAnyF" -> offChangeAny(w, c, "f").w
    [] fn = "clearAny" -> offChangeAny(w, c, NoAction).w
    [] fn = "setB" -> nestedSetState(w, c, <<[key |-> "b", val |-> Num(1)]>>, fn)
    [] fn = "peek" ->
         LET r == value(w.objs, w._state[c])
         IN  [w EXCEPT !.objs = r.h,
                       !.log = Append(@, PeekEntry(c, fn, Contents(r.h, Ref(r.v))))]
    [] fn = "mirror" -> mirrorState(w, c, fn)
    [] OTHER -> w

\* funct(key), funct(): calling a value that is not a function is a TypeError
Call(w, entry) ==
  IF entry.fn = NotCallable THEN [w EXCEPT !.err = "TypeError"]
  ELSE IF entry.fn = Thrower
    THEN [w EXCEPT !.log = Append(@, entry), !.err = "Error"]
    ELSE Body([w EXCEPT !.log = Append(@, entry)], entry.c, entry.fn)

EffectEntry(this, key, fn) ==
  [ev |-> "effect", c |-> this, key |-> key, fn |-> fn, arg |-> <<>>]
GlobalEntry(this, fn, changed) ==
  [ev |-> "global", c |-> this, key |-> "", fn |-> fn, arg |-> changed]

\* forEach over a listener list: the length is read once, the element at
\* each index when it is reached; an error raised by a listener ends the loop.
\* The loop runs over the array that al[key] held when it began, the g-th
\* array of the key: the one al[key] still holds, or a detached one
RECURSIVE forEachEffect(_, _, _, _, _, _)
forEachEffect(w, this, key, k, len, g) ==
  IF k > len \/ w.err # "none" THEN w
  ELSE LET list == IF g <= Len(Detached(w, this, key))
                     THEN Detached(w, this, key)[g] ELSE w.al[this][key]
       IN  IF k <= Len(list)
             THEN forEachEffect(Call(w, EffectEntry(this, key, list[k])),
                                this, key, k + 1, len, g)
             ELSE forEachEffect(w, this, key, k + 1, len, g)

RECURSIVE forEachGlobal(_, _, _, _, _)
forEachGlobal(w, this, changed, k, len) ==
  IF k > len \/ w.err # "none" THEN w
  ELSE LET list == w.globals[this]
       IN  IF k <= Len(list)
             THEN forEachGlobal(Call(w, GlobalEntry(this, list[k], changed)),
                                this, changed, k + 1, len)
             ELSE forEachGlobal(w, this, changed, k + 1, len)

\* dispatchGlobals = (key = "") => globals.forEach((funct) => funct(key))
dispatchGlobalsFirstKey(w, this, key) ==
  forEachGlobal(w, this, <<key[1]>>, 1, Len(w.globals[this]))
dispatchGlobals(w, this, key) ==
  forEachGlobal(w, this, key, 1, Len(w.globals[this]))

\* dispatchIgnoreGlobals = (key) => ...
dispatchAnyKey(w, this, key) ==
  IF \E k \in DOMAIN w.al[this] : k # key
    THEN LET k == CHOOSE k \in DOMAIN w.al[this] : k # key
         IN  forEachEffect(w, this, k, 1, Len(w.al[this][k]),
                           Len(Detached(w, this, k)) + 1)
    ELSE w
dispatchIgnoreGlobals(w, this, key) ==
  IF key \in DOMAIN w.al[this]
    THEN forEachEffect(w, this, key, 1, Len(w.al[this][key]),
                       Len(Detached(w, this, key)) + 1)
    ELSE w

-----------------------------------------------------------------------------
(* Reactive.Component.prototype: setState, get, state *)

\* keys.filter((key) => this._state.change(key, newState[key])), lines
\* 225-229: newState is the sequence of [key, val] of the argument, in the
\* order of Object.keys
RECURSIVE filterChanged(_, _, _, _, _)
filterChanged(h, s, newState, i, changed) ==
  IF i > Len(newState) THEN [h |-> h, v |-> changed]
  ELSE LET r == change(h, s, newState[i].key, newState[i].val)
       IN  filterChanged(r.h, s, newState, i + 1,
                         IF r.r THEN Append(changed, newState[i].key) ELSE changed)

\* changed.forEach(this.sideEffects.dispatchIgnoreGlobals), line 231
RECURSIVE dispatchBackwards(_, _, _, _)
dispatchBackwards(w, this, changed, i) ==
  IF i < 1 \/ w.err # "none" THEN w
  ELSE dispatchBackwards(dispatchIgnoreGlobals(w, this, changed[i]),
                         this, changed, i - 1)
RECURSIVE dispatchChangedFrom(_, _, _, _)
dispatchChangedFrom(w, this, changed, i) ==
  IF i > Len(changed) \/ w.err # "none" THEN w
  ELSE dispatchChangedFrom(dispatchIgnoreGlobals(w, this, changed[i]),
                           this, changed, i + 1)

dispatchChangedReversed(w, this, changed) ==
  dispatchBackwards(w, this, changed, Len(changed))
dispatchChanged(w, this, changed) == dispatchChangedFrom(w, this, changed, 1)

\* lines 233-236
finishAlways(w, this, changed) ==
  LET w1 == dispatchGlobals(w, this, changed)
  IN  IF w1.err # "none" THEN w1 ELSE render(w1, this)
finishRenderFirst(w, this, changed) ==
  IF Len(changed) > 0
    THEN dispatchGlobals(render(w, this), this, changed)
    ELSE w
finishSetState(w, this, changed) ==
  IF Len(changed) > 0
    THEN LET w1 == dispatchGlobals(w, this, changed)
         IN  IF w1.err # "none" THEN w1 ELSE render(w1, this)
    ELSE w

\* setState: function (newState)
RECURSIVE changeAndDispatch(_, _, _, _, _)
changeAndDispatch(w, this, newState, i, changed) ==
  IF i > Len(newState) \/ w.err # "none" THEN [w |-> w, v |-> changed]
  ELSE LET r == change(w.objs, w._state[this], newState[i].key, newState[i].val)
           w1 == [w EXCEPT !.objs = r.h]
       IN  IF r.r
             THEN changeAndDispatch(dispatchIgnoreGlobals(w1, this, newState[i].key),
                                    this, newState, i + 1,
                                    Append(changed, newState[i].key))
             ELSE changeAndDispatch(w1, this, newState, i + 1, changed)
setStateKeyByKey(w, this, newState) ==
  LET r == changeAndDispatch(w, this, newState, 1, <<>>)
  IN  IF r.w.err # "none" THEN r.w ELSE finishSetState(r.w, this, r.v)
setState(w, this, newState) ==
  LET f == filterChanged(w.objs, w._state[this], newState, 1, <<>>)
      changed == f.v
      w1 == dispatchChanged([w EXCEPT !.objs = f.h], this, changed)
  IN  IF w1.err # "none" THEN w1 ELSE finishSetState(w1, this, changed)

\* get: function (props = {}); v is the node the caller receives
getMerges(w, this, props) ==
  LET w1 == render([w EXCEPT !._props[this] = props @@ @], this)
  IN  [w |-> w1, v |-> w1.element[this]]
get(w, this, props) ==
  rootOf(render([w EXCEPT !._props[this] = props], this), this)

\* set state(state) { throw new Error("The state is inmutable") }
setStateAttributeStores(w, this, state) == [w EXCEPT !._state[this] = state]
setStateAttribute(w, this, state) == [w EXCEPT !.err = "Error"]

\* get state() { return this._state.value() }; v is the object returned
getStateAttribute(w, this) ==
  LET r == value(w.objs, w._state[this])
  IN  [w |-> [w EXCEPT !.objs = r.h], v |-> r.v]

\* onChangeState / onChangeAny
onChangeState(w, this, key, action) == add(w, this, key, action)
onChangeAny(w, this, action) == addGlobal(w, this, action)

\* addEventListener: function (type, listener, selector = null); "" is the
\* selector of a binding without one
addEventListener(w, this, type, listener, selector) ==
  LET new == FreshId(DOMAIN w.bindings)
      w1 == [w EXCEPT !.bindings = @ @@ (new :> [type |-> type, listener |-> listener,
                                                 selector |-> selector,
                                                 _listener |-> NoWrapper]),
                      !.events[this] = Append(@, new)]
  IN  IF w1.element[this] # 0 THEN putEvents(w1, this, w1.element[this]) ELSE w1

\* this.events.findIndex(...) of removeEventListener: the first binding of
\* the type and the listener whose selector is the given one, or that has
\* none when none is given; 0 when there is no such binding
Matches(event, type, listener, selector) ==
  /\ event.type = type
  /\ event.listener = listener
  /\ ((event.selector = "" /\ selector = "") \/ event.selector = selector)
findIndex(w, this, type, listener, selector) ==
  LET found == {i \in 1..Len(w.events[this]) :
                  Matches(w.bindings[w.events[this][i]], type, listener, selector)}
  IN  IF found = {} THEN 0 ELSE CHOOSE i \in found : \A j \in found : i <= j

\* removeEventListener: function (type, listener, selector = null)
keepRegistered(w, this, event) == w
unregister(w, this, event) ==
  IF w.element[this] # 0 /\ event._listener # NoWrapper
    THEN [w EXCEPT !.nodes[w.element[this]].listeners =
                      @ \ {[type |-> event.type, fn |-> event._listener]}]
    ELSE w
removeEventListener(w, this, type, listener, selector) ==
  LET removeAt == findIndex(w, this, type, listener, selector)
  IN  IF removeAt = 0 THEN w
      ELSE LET w1 == unregister(w, this, w.bindings[w.events[this][removeAt]])
           IN  [w1 EXCEPT !.events[this] = splice(@, removeAt)]

-----------------------------------------------------------------------------
(* The browser: target.dispatchEvent(new Event(type, {bubbles: true})) *)

\* e.target.closest(selector), for a selector that is a tag name
closest(ns, target, selector) ==
  \E i \in 1..Len(Path(ns, target)) : ns[Path(ns, target)[i]].tag = selector

RECURSIVE Sorted(_)
Sorted(S) ==
  IF S = {} THEN <<>>
  ELSE LET m == CHOOSE x \in S : \A y \in S : x <= y
       IN  <<m>> \o Sorted(S \ {m})

\* history: a wrapper has called the listener of its binding with this = c
EventEntry(fn, type) ==
  [ev |-> "event", c |-> fn.this, key |-> type, fn |-> fn.listener,
   arg |-> <<fn.selector>>]

\* the wrapper of putEvents, called with an event
callWrapper(w, fn, type, target) ==
  IF fn.selector # "" /\ ~closest(w.nodes, target, fn.selector) THEN w
  ELSE Call(w, EventEntry(fn, type))

\* the listeners of one node for the type; the order in which the listeners
\* of one node are called is not kept, they are taken by wrapper id
RECURSIVE callListeners(_, _, _, _, _)
callListeners(w, ids, n, type, target) ==
  IF ids = <<>> THEN w
  ELSE LET l == CHOOSE l \in w.nodes[n].listeners :
                   l.type = type /\ l.fn.id = Head(ids)
       IN  callListeners(callWrapper(w, l.fn, type, target), Tail(ids), n, type, target)

\* the event bubbles from the target to the root of its tree
RECURSIVE bubble(_, _, _, _)
bubble(w, path, type, target) ==
  IF path = <<>> THEN w
  ELSE LET n == Head(path)
           ids == Sorted({l.fn.id : l \in {x \in w.nodes[n].listeners : x.type = type}})
       IN  bubble(callListeners(w, ids, n, type, target), Tail(path), type, target)
dispatchEvent(w, target, type) == bubble(w, Path(w.nodes, target), type, target)

-----------------------------------------------------------------------------
(* Reactive.createComponent: the constructor _Comp of the factory *)

\* Reactive.Component = function (template, initialState = {}): the store,
\* the props and the effect registry of the instance
WireEntry(this) ==
  [ev |-> "wire", c |-> this, key |-> "", fn |-> "", arg |-> <<>>]
ComponentCall(w, this) ==
  LET r == _stateNew(w.objs, w.initialState)
  IN  [w EXCEPT !.objs = r.h,
                !._state[this] = r.v,
                !._props[this] = EmptyMap,
                !.al[this] = EmptyMap,
                !.globals[this] = <<>>,
                !.log = Append(@, WireEntry(this))]

\* definitions.call(this) for the callable the factory is configured with,
\* function () { this.onChangeState("a", f) }: without this.sideEffects the
\* call of onChangeState is a TypeError; the callable of the kind "binding"
\* is function () { this.addEventListener("click", k) }
DefinitionsEntry(this) ==
  [ev |-> "definitions", c |-> this, key |-> "", fn |-> "", arg |-> <<>>]
definitionsCall(w, this) ==
  LET w1 == [w EXCEPT !.log = Append(@, DefinitionsEntry(this))]
  IN  IF w.definitions = "binding"
        THEN addEventListener(w1, this, "click", "k", "")
      ELSE IF w._state[this] = 0 THEN [w1 EXCEPT !.err = "TypeError"]
      ELSE onChangeState(w1, this, "a", "f")

\* this.events = events.filter((e) => e.type && e.listener).map((e) => ({ ...e }))
shareEntry(w, this, e) == [w EXCEPT !.events[this] = Append(@, e)]
copyEntry(w, this, e) ==
  LET new == FreshId(DOMAIN w.bindings)
  IN  [w EXCEPT !.bindings = @ @@ (new :> w.bindings[e]),
                !.events[this] = Append(@, new)]
RECURSIVE copyEvents(_, _, _)
copyEvents(w, this, i) ==
  IF i > Len(w.events0) THEN w
  ELSE LET e == w.events0[i]
       IN  IF w.bindings[e].type # "" /\ w.bindings[e].listener # ""
             THEN copyEvents(copyEntry(w, this, e), this, i + 1)
             ELSE copyEvents(w, this, i + 1)

\* function _Comp(): Reactive.Component.call(this, null, initialState), then
\* the definitions, then this.events; an error ends the constructor
_CompDefinitionsFirst(w, this) ==
  LET w1 == IF w.definitions # "none" THEN definitionsCall(w, this) ELSE w
  IN  IF w1.err # "none" THEN w1
      ELSE copyEvents([ComponentCall(w1, this) EXCEPT !.events[this] = <<>>], this, 1)
_Comp(w, this) ==
  LET w1 == ComponentCall(w, this)
      w2 == IF w1.definitions # "none" THEN definitionsCall(w1, this) ELSE w1
  IN  IF w2.err # "none" THEN w2
      ELSE copyEvents([w2 EXCEPT !.events[this] = <<>>], this, 1)

-----------------------------------------------------------------------------
(* Garbage and names: a call leaves behind only the objects and nodes that  *)
(* something still refers to, and these are numbered in the order in which  *)
(* they are found from the factory and the components, so that two worlds   *)
(* that differ only in the ids of their objects are one state. Identity is  *)
(* therefore compared inside a call, never between two states.              *)

Range(seq) == {seq[i] : i \in 1..Len(seq)}
Position(seq, x) == IF x \in Range(seq) THEN IndexOf(seq, x) ELSE 0
CompOrder == <<"c1", "c2">>

\* the objects reachable from todo, each once, in depth-first order
RECURSIVE VisitObjs(_, _, _)
VisitObjs(h, todo, acc) ==
  IF todo = <<>> THEN acc
  ELSE LET o == Head(todo)
           refs == SelectSeq([i \in 1..Len(PropOrder) |-> h[o][PropOrder[i]]],
                             LAMBDA val : val.t = "ref")
       IN  IF o = 0 \/ o \in Range(acc) THEN VisitObjs(h, Tail(todo), acc)
           ELSE VisitObjs(h, [i \in 1..Len(refs) |-> refs[i].v] \o Tail(todo),
                          Append(acc, o))

RECURSIVE VisitNodes(_, _, _)
VisitNodes(ns, todo, acc) ==
  IF todo = <<>> THEN acc
  ELSE LET n == Head(todo)
       IN  IF n = 0 \/ n \in Range(acc) THEN VisitNodes(ns, Tail(todo), acc)
           ELSE VisitNodes(ns, ns[n].kids \o Tail(todo), Append(acc, n))

LiveObjs(w) ==
  VisitObjs(w.objs,
            <<w.initialState>> \o [i \in 1..Len(CompOrder) |-> w._state[CompOrder[i]]]
              \o <<w.snap>>,
            <<>>)
\* the binding entries the factory and the components hold, each once
RECURSIVE Distinct(_, _)
Distinct(seq, acc) ==
  IF seq = <<>> THEN acc
  ELSE Distinct(Tail(seq),
                IF Head(seq) \in Range(acc) THEN acc ELSE Append(acc, Head(seq)))
LiveBindings(w) ==
  Distinct(w.events0 \o w.events["c1"] \o w.events["c2"], <<>>)
\* the wrappers in use: those the live bindings cache, then those left on
\* live nodes
LiveWrappers(w, lb, ln) ==
  LET cached == Distinct(SelectSeq([i \in 1..Len(lb) |-> w.bindings[lb[i]]._listener.id],
                                   LAMBDA x : x # 0), <<>>)
      onNodes == UNION {{l.fn.id : l \in w.nodes[ln[i]].listeners} : i \in 1..Len(ln)}
  IN  cached \o Sorted(onNodes \ Range(cached))
RenameWrapper(lw, fn) == [fn EXCEPT !.id = Position(lw, @)]

LiveNodes(w) ==
  VisitNodes(w.nodes, [i \in 1..Len(CompOrder) |-> w.element[CompOrder[i]]], <<>>)

RenameVal(live, val) ==
  IF val.t = "ref" THEN Ref(Position(live, val.v)) ELSE val

Canonical(w) ==
  LET lo == LiveObjs(w)
      ln == LiveNodes(w)
      lb == LiveBindings(w)
      lw == LiveWrappers(w, lb, ln)
  IN  [w EXCEPT
        !.events0 = [i \in 1..Len(@) |-> Position(lb, @[i])],
        !.events = [c \in Comps |-> [i \in 1..Len(@[c]) |-> Position(lb, @[c][i])]],
        !.bindings = [i \in 1..Len(lb) |->
                        [w.bindings[lb[i]] EXCEPT !._listener = RenameWrapper(lw, @)]],
        !.initialState = Position(lo, @),
        !.objs = [i \in 1..Len(lo) |->
                    [p \in PropNames |-> RenameVal(lo, w.objs[lo[i]][p])]],
        !._state = [c \in Comps |-> Position(lo, @[c])],
        !.snap = Position(lo, @),
        !.element = [c \in Comps |-> Position(ln, @[c])],
        !.nodes = [i \in 1..Len(ln) |->
                     [w.nodes[ln[i]] EXCEPT
                        !.kids = [k \in 1..Len(@) |-> Position(ln, @[k])],
                        !.parent = Position(ln, @),
                        !.listeners =
                           {[l EXCEPT !.fn = RenameWrapper(lw, @)] : l \in @}]]]

CanonicalCall(w, call) ==
  IF call.name \in {"setState", "change"}
    THEN [call EXCEPT !.arg =
            [i \in 1..Len(@) |->
               [@[i] EXCEPT !.val = RenameVal(LiveObjs(w), @)]]]
  ELSE IF call.name = "get"
    THEN [call EXCEPT !.ret = Position(LiveNodes(w), @)]
  ELSE call

\* the next state: the world a call leaves
Commit(left, call) ==
  \E w \in {left} : \E cw \in {Canonical(w)} :
      /\ template' = cw.template
      /\ initialState' = cw.initialState
      /\ definitions' = cw.definitions
      /\ events0' = cw.events0
      /\ bindings' = cw.bindings
      /\ objs' = cw.objs
      /\ _state' = cw._state
      /\ _props' = cw._props
      /\ element' = cw.element
      /\ events' = cw.events
      /\ al' = cw.al
      /\ globals' = cw.globals
      /\ nodes' = cw.nodes
      /\ snap' = cw.snap
      /\ op' = CanonicalCall(w, call)
      /\ log' = cw.log
      /\ err' = cw.err
      /\ threw' = [c \in Comps |->
                     threw[c] \/ (call.name = "setState" /\ call.c = c
                                  /\ w.err # "none")]
      /\ firstKey' = [c \in Comps |->
                        IF firstKey[c] = "" /\ cw.al[c] # EmptyMap
                          THEN CHOOSE k \in DOMAIN cw.al[c] : TRUE
                          ELSE firstKey[c]]
      /\ replaced' = [c \in Comps |->
                        IF cw.events[c] = <<>> THEN 0
                        ELSE IF \E i \in DOMAIN w.log :
                                  w.log[i].ev = "replace" /\ w.log[i].c = c
                          THEN IF replaced[c] < MaxRoots THEN replaced[c] + 1
                               ELSE MaxRoots
                          ELSE replaced[c]]

\* the world a call starts in
Enter == [World EXCEPT !.log = <<>>, !.err = "none"]

-----------------------------------------------------------------------------
(* The values a caller passes to setState *)

\* a number, undefined, a new object {x: n}, the very value the store holds
\* for the key ("same"), or the value read from this.state for the key ("read")
Numbers == 0..MaxNum
ArgKinds ==
  [k : {"num", "obj"}, n : Numbers] \cup [k : {"undef", "same", "read"}, n : {0}]

MakeArg(h, s, key, kind) ==
  IF kind.k = "num" THEN [h |-> h, v |-> Num(kind.n)]
  ELSE IF kind.k = "undef" THEN [h |-> h, v |-> Undefined]
  ELSE IF kind.k = "same" THEN [h |-> h, v |-> Read(h, s, key)]
  ELSE IF kind.k = "read"
    THEN LET r == value(h, s) IN [h |-> r.h, v |-> Read(r.h, r.v, key)]
  ELSE LET new == FreshId(DOMAIN h)
       IN  [h |-> h @@ (new :> [EmptyObject EXCEPT !["x"] = Num(kind.n)]),
            v |-> Ref(new)]

\* the argument object of setState: keys in the order written, with values;
\* history: held says that the value is the very value the store holds for
\* the key when the call is made (===)
RECURSIVE MakeArgs(_, _, _, _, _, _)
MakeArgs(h, s, keys, kinds, i, acc) ==
  IF i > Len(keys) THEN [h |-> h, v |-> acc]
  ELSE LET r == MakeArg(h, s, keys[i], kinds[i])
       IN  MakeArgs(r.h, s, keys, kinds, i + 1,
                    Append(acc, [key |-> keys[i], val |-> r.v,
                                 held |-> h[s][keys[i]] = r.v]))

\* sequences of one or two different keys
KeySeqs(K) == {<<k>> : k \in K} \cup {s \in K \X K : s[1] # s[2]}
\* for each key of keys a kind of value that Kinds allows for that key
KindSeqs(keys, Kinds) ==
  {ks \in [1..Len(keys) -> ArgKinds] : \A i \in 1..Len(keys) : ks[i] \in Kinds[keys[i]]}

-----------------------------------------------------------------------------
(* The calls of the environment *)

\* c.setState({key: value, ...}); traced: the history keeps the argument
SetState(c, keys, kinds, traced) ==
  \E args \in {MakeArgs(objs, _state[c], keys, kinds, 1, <<>>)} :
    Commit(setState([Enter EXCEPT !.objs = args.h], c, args.v),
           [name |-> "setState", c |-> c, arg |-> IF traced THEN args.v ELSE <<>>])

\* c._state.change(key, value); the call keeps the boolean it returns
Change(c, key, kind) ==
  \E arg \in {MakeArg(objs, _state[c], key, kind)} :
    \E r \in {change(arg.h, _state[c], key, arg.v)} :
      Commit([Enter EXCEPT !.objs = r.h],
             [name |-> "change", c |-> c, kind |-> kind.k, ret |-> r.r,
              arg |-> <<[key |-> key, val |-> arg.v,
                         held |-> objs[_state[c]][key] = arg.v]>>])

\* c.get(props)
Get(c, props) ==
  \E r \in {get(Enter, c, props)} :
    Commit(r.w, [name |-> "get", c |-> c, arg |-> <<>>,
                 props |-> props, ret |-> r.v])

\* snapshot = c.state: the caller keeps the object it read
ReadState(c) ==
  \E r \in {getStateAttribute(Enter, c)} :
    Commit([r.w EXCEPT !.snap = r.v], [name |-> "state", c |-> c, arg |-> <<>>])

\* snapshot[key] = n
WriteSnapshot(key, n) ==
  /\ snap # 0
  /\ Commit([Enter EXCEPT !.objs[snap][key] = Num(n)],
            [name |-> "write", c |-> NoComp, arg |-> <<>>])

\* snapshot[key].x = n, for a key that holds an object
WriteNested(key, n) ==
  /\ snap # 0
  /\ objs[snap][key].t = "ref"
  /\ Commit([Enter EXCEPT !.objs[objs[snap][key].v]["x"] = Num(n)],
            [name |-> "write", c |-> NoComp, arg |-> <<>>])

\* c.state = {}
AssignState(c) ==
  \E new \in {FreshId(DOMAIN objs)} :
    Commit(setStateAttribute([Enter EXCEPT !.objs = @ @@ (new :> EmptyObject)], c, new),
           [name |-> "state=", c |-> c, arg |-> <<>>])

\* the number of effects registered on a component
RECURSIVE SumLen(_, _)
SumLen(f, K) ==
  IF K = {} THEN 0
  ELSE LET k == CHOOSE k \in K : TRUE IN Len(f[k]) + SumLen(f, K \ {k})
EffectCount(c) == SumLen(al[c], DOMAIN al[c]) + Len(globals[c])

\* c.onChangeState(key, action), while the component has fewer than limit effects
OnChangeState(c, key, action, limit) ==
  /\ EffectCount(c) < limit
  /\ Commit(onChangeState(Enter, c, key, action),
            [name |-> "onChangeState", c |-> c, arg |-> <<>>,
             key |-> key, action |-> action])

\* c.onChangeAny(action)
OnChangeAny(c, action, limit) ==
  /\ EffectCount(c) < limit
  /\ Commit(onChangeAny(Enter, c, action),
            [name |-> "onChangeAny", c |-> c, arg |-> <<>>,
             key |-> "", action |-> action])

\* c.offChangeState(key, action); the call keeps the boolean it returns, and
\* the history how many listeners the key had
OffChangeState(c, key, action) ==
  \E r \in {offChangeState(Enter, c, key, action)} :
    Commit(r.w, [name |-> "offChangeState", c |-> c, arg |-> <<>>,
                 key |-> key, action |-> action, ret |-> r.v,
                 had |-> IF key \in DOMAIN al[c] THEN Len(al[c][key]) ELSE 0])

\* c.offChangeAny(action)
OffChangeAny(c, action) ==
  \E r \in {offChangeAny(Enter, c, action)} :
    Commit(r.w, [name |-> "offChangeAny", c |-> c, arg |-> <<>>,
                 key |-> "", action |-> action, ret |-> r.v])

\* c.addEventListener(type, listener, selector)
AddEventListener(c, type, listener, selector) ==
  /\ Len(events[c]) < MaxBindings
  /\ Commit(addEventListener(Enter, c, type, listener, selector),
            [name |-> "addEventListener", c |-> c, arg |-> <<>>,
             key |-> type, action |-> listener, selector |-> selector])

\* c.removeEventListener(type, listener, selector)
RemoveEventListener(c, type, listener, selector) ==
  Commit(removeEventListener(Enter, c, type, listener, selector),
         [name |-> "removeEventListener", c |-> c, arg |-> <<>>,
          key |-> type, action |-> listener, selector |-> selector,
          matched |-> findIndex(World, c, type, listener, selector) # 0])

\* the elements of the tree of root
ElementsUnder(ns, root) ==
  {n \in DOMAIN ns : ns[n].tag # TEXT_NODE /\ root \in Range(Path(ns, n))}

\* an event of the type on an element of the live tree of c; the call
\* records whether the target is the root, the tags closest() can find and
\* those of them that are on the way from the target to the root of c
DispatchEvent(c, type) ==
  /\ element[c] # 0
  /\ \E target \in ElementsUnder(nodes, element[c]) :
       Commit(dispatchEvent(Enter, target, type),
              [name |-> "dispatchEvent", c |-> c, arg |-> <<>>, key |-> type,
               onRoot |-> target = element[c],
               tags |-> {nodes[n].tag : n \in Range(Path(nodes, target))},
               scope |-> {nodes[n].tag :
                            n \in {x \in Range(Path(nodes, target)) :
                                     element[c] \in Range(Path(nodes, x))}}])

\* the user types text into an <input> of the live tree of c: the value
\* property of the element changes, its value attribute does not
Type(c, text) ==
  /\ element[c] # 0
  /\ \E n \in ElementsUnder(nodes, element[c]) :
       /\ nodes[n].tag = "input"
       /\ nodes[n].value # text
       /\ Commit([Enter EXCEPT !.nodes[n].value = text],
                 [name |-> "type", c |-> c, arg |-> <<>>, key |-> text])

\* const c = new Comp(): each of the two instances is built once
New(c) ==
  /\ _state[c] = 0
  /\ Commit(_Comp(Enter, c), [name |-> "new", c |-> c, arg |-> <<>>])

-----------------------------------------------------------------------------
(* Construction *)

\* the heap that holds the initialState object {a: 0, b: 0} or {a: 0, b: {x: 0}}
PlainHeap == (1 :> [EmptyObject EXCEPT !["a"] = Num(0), !["b"] = Num(0)])
StructuredHeap ==
  (1 :> [EmptyObject EXCEPT !["a"] = Num(0), !["b"] = Ref(2)])
    @@ (2 :> [EmptyObject EXCEPT !["x"] = Num(0)])

\* before any constructor ran
\* the configuration of a factory besides template and initialState: the
\* kind of its definitions and its events, a list of {type, listener, selector}
NoConfig == [definitions |-> "none", events |-> <<>>]

BlankWith(tid, h, cfg) ==
  [template |-> tid, initialState |-> 1,
   definitions |-> cfg.definitions,
   events0 |-> [i \in 1..Len(cfg.events) |-> i],
   bindings |-> [i \in 1..Len(cfg.events) |->
                   [type |-> cfg.events[i].type, listener |-> cfg.events[i].listener,
                    selector |-> cfg.events[i].selector, _listener |-> NoWrapper]],
   objs |-> h,
   _state |-> [c \in Comps |-> 0], _props |-> [c \in Comps |-> EmptyMap],
   element |-> [c \in Comps |-> 0], events |-> [c \in Comps |-> <<>>],
   al |-> [c \in Comps |-> EmptyMap], globals |-> [c \in Comps |-> <<>>],
   nodes |-> <<>>, snap |-> 0, log |-> <<>>, err |-> "none",
   old |-> [c \in Comps |-> EmptyMap], depth |-> 0]
Blank(tid, h) == BlankWith(tid, h, NoConfig)

\* the state w, with an empty history
StartIn(w) ==
  /\ template = w.template /\ initialState = w.initialState
  /\ definitions = w.definitions /\ events0 = w.events0 /\ bindings = w.bindings
  /\ objs = w.objs /\ _state = w._state /\ _props = w._props
  /\ element = w.element /\ events = w.events /\ al = w.al
  /\ globals = w.globals /\ nodes = w.nodes /\ snap = w.snap
  /\ op = [name |-> "new", c |-> NoComp, arg |-> <<>>]
  /\ log = <<>> /\ err = "none"
  /\ threw = [c \in Comps |-> FALSE]
  /\ firstKey = [c \in Comps |-> ""]
  /\ replaced = [c \in Comps |-> 0]

\* const c1 = new Comp(); const c2 = new Comp()
Constructed(tid, h) == _Comp(_Comp(Blank(tid, h), "c1"), "c2")

InitWith(tids, heaps) ==
  \E tid \in tids, h \in heaps :
    \E w \in {Canonical(Constructed(tid, h))} :
        /\ template = w.template /\ initialState = w.initialState
        /\ definitions = w.definitions /\ events0 = w.events0
        /\ bindings = w.bindings
        /\ objs = w.objs /\ _state = w._state /\ _props = w._props
        /\ element = w.element /\ events = w.events /\ al = w.al
        /\ globals = w.globals /\ nodes = w.nodes /\ snap = w.snap
        /\ op = [name |-> "new", c |-> NoComp, arg |-> <<>>]
        /\ log = <<>> /\ err = "none"
        /\ threw = [c \in Comps |-> FALSE]
        /\ firstKey = [c \in Comps |-> ""]
        /\ replaced = [c \in Comps |-> 0]

-----------------------------------------------------------------------------
(* Spec: one component, its state store and the calls that read and write  *)
(* it. The state holds numbers, undefined and objects; setState is called  *)
(* with known and unknown keys.                                            *)

StoreKinds == [key \in PropNames |->
  IF key = "a" THEN [k : {"num"}, n : Numbers] \cup [k : {"obj", "undef", "same", "read"}, n : {0}]
  ELSE IF key = "b" THEN [k : {"same", "read"}, n : {0}]
  ELSE [k : {"num"}, n : {0}]]
StoreKeySeqs == {<<"a">>, <<"b">>, <<"z">>, <<"a", "b">>, <<"a", "z">>, <<"z", "a">>}

Init == InitWith({"form"}, {PlainHeap, StructuredHeap})

Next ==
  \/ \E keys \in StoreKeySeqs : \E kinds \in KindSeqs(keys, StoreKinds) :
       SetState("c1", keys, kinds, TRUE)
  \/ Get("c1", EmptyMap)
  \/ AssignState("c1")
  \/ \E key \in {"a", "z"} : OnChangeState("c1", key, "f", MaxEffects)
  \/ OnChangeAny("c1", "g", MaxEffects)

Spec == Init /\ [][Next]_vars

-----------------------------------------------------------------------------
(* SpecFx: one component with numbers in its state, effects for the keys a *)
(* and b and for any key, and setState calls that name one or two keys.    *)

\* a takes every number, b the numbers 0 and 1
FxKinds ==
  [key \in PropNames |-> [k : {"num"}, n : IF key = "a" THEN Numbers ELSE {0, 1}]]
FxLimit == MaxEffects + 2

InitFx == InitWith({"counter"}, {PlainHeap})

NextFx ==
  \/ \E keys \in KeySeqs({"a", "b"}) : \E kinds \in KindSeqs(keys, FxKinds) :
       SetState("c1", keys, kinds, TRUE)
  \/ \E action \in Listeners : OnChangeState("c1", "a", action, FxLimit)
  \/ OnChangeState("c1", "b", "f", FxLimit)
  \/ OnChangeAny("c1", "g", FxLimit)

SpecFx == InitFx /\ [][NextFx]_vars

-----------------------------------------------------------------------------
(* SpecOff: callers that subscribe and unsubscribe effects of c1, among    *)
(* them effects that unsubscribe while the lists are being dispatched.     *)

OffKinds == [key \in PropNames |-> [k : {"num"}, n : Numbers]]
OffLimit == MaxEffects + 1

InitOff == InitWith({"counter"}, {PlainHeap})

NextOff ==
  \/ \E kinds \in KindSeqs(<<"a">>, OffKinds) : SetState("c1", <<"a">>, kinds, FALSE)
  \/ \E action \in {"f", "g", "dropF", "clearA"} :
       OnChangeState("c1", "a", action, OffLimit)
  \/ \E action \in {"f", "dropAnyF", "clearAny"} : OnChangeAny("c1", action, OffLimit)
  \/ \E key \in {"a", "b"}, action \in {NoAction, "f", "g"} :
       OffChangeState("c1", key, action)
  \/ \E action \in {NoAction, "f"} : OffChangeAny("c1", action)

SpecOff == InitOff /\ [][NextOff]_vars

-----------------------------------------------------------------------------
(* SpecRe: one component with the template "form" whose effects, for the   *)
(* keys and for any key, read this.state or call setState on the component *)
(* while a setState of one or two keys is dispatching.                     *)

ReKinds == [key \in PropNames |-> [k : {"num"}, n : {0, 1}]]
ReLimit == MaxEffects

InitRe == InitWith({"form"}, {PlainHeap})

NextRe ==
  \/ \E keys \in {<<"a">>, <<"b">>, <<"a", "b">>, <<"b", "a">>} :
       \E kinds \in KindSeqs(keys, ReKinds) : SetState("c1", keys, kinds, TRUE)
  \/ \E action \in {"f", "setB", "peek"} : OnChangeState("c1", "a", action, ReLimit)
  \/ \E action \in {"g", "peek"} : OnChangeState("c1", "b", action, ReLimit)
  \/ \E action \in {"setB", "peek"} : OnChangeAny("c1", action, ReLimit)

SpecRe == InitRe /\ [][NextRe]_vars

-----------------------------------------------------------------------------
(* SpecMirror: the two components, each of which can be given the effect   *)
(* mirror for the key b, which passes the b it reads from its own state to *)
(* setState of the other; b holds a number or an object.                   *)

MirrorKinds == [k : {"num", "obj"}, n : {0, 1}] \cup [k : {"read"}, n : {0}]

InitMirror == InitWith({"counter"}, {PlainHeap, StructuredHeap})

NextMirror ==
  \/ \E c \in Comps : OnChangeState(c, "b", "mirror", 1)
  \/ \E c \in Comps, kind \in MirrorKinds : SetState(c, <<"b">>, <<kind>>, TRUE)

SpecMirror == InitMirror /\ [][NextMirror]_vars

-----------------------------------------------------------------------------
(* SpecBind: a factory whose definitions callable adds the binding         *)
(* click/k to the instance it builds, with or without a configured binding *)
(* click/h; the program builds the instances, renders them, adds and       *)
(* removes bindings and dispatches clicks on their trees.                  *)

BindConfigs ==
  [definitions : {"binding"},
   events : {<<>>, <<[type |-> "click", listener |-> "h", selector |-> ""]>>}]

InitBind ==
  \E tid \in {"counter", "form"}, cfg \in BindConfigs :
    StartIn(Canonical(BlankWith(tid, PlainHeap, cfg)))

NextBind ==
  \/ \E c \in Comps : New(c)
  \/ \E c \in Comps : _state[c] # 0 /\ Get(c, EmptyMap)
  \/ \E c \in Comps, listener \in {"h", "k"} :
       _state[c] # 0 /\ AddEventListener(c, "click", listener, "")
  \/ \E c \in Comps, listener \in {"h", "k"} :
       _state[c] # 0 /\ RemoveEventListener(c, "click", listener, "")
  \/ \E c \in Comps : DispatchEvent(c, "click")

SpecBind == InitBind /\ [][NextBind]_vars

-----------------------------------------------------------------------------
(* SpecScope: the parent c1 with the template "nest" and its child c2,     *)
(* whose root is a <div> or a <p> inside the <div> or the <section> of the *)
(* parent; the child gets bindings with and without a selector, and clicks *)
(* are dispatched on the elements of its tree.                             *)

ScopeSelectors == {"", "div", "p"}

InitScope == InitWith({"nest"}, {PlainHeap})

NextScope ==
  \/ Get(NestParent, EmptyMap)
  \/ \E c \in Comps, n \in {0, 1} :
       SetState(c, <<"a">>, <<[k |-> "num", n |-> n]>>, FALSE)
  \/ \E selector \in ScopeSelectors :
       AddEventListener(NestChild, "click", "k", selector)
  \/ DispatchEvent(NestChild, "click")

SpecScope == InitScope /\ [][NextScope]_vars

-----------------------------------------------------------------------------
(* SpecEdit: one component with the template "form", whose <input> shows   *)
(* props.p; the program renders it with one or the other p, changes its    *)
(* class and the tag of its root, and the user types into the <input>.     *)

EditProps == {"p" :> "x", "p" :> "y"}
EditTexts == {"x", "y", "z"}

InitEdit == InitWith({"form"}, {PlainHeap, StructuredHeap})

NextEdit ==
  \/ \E props \in EditProps : Get("c1", props)
  \/ \E key \in {"a", "b"}, n \in {0, 1} :
       SetState("c1", <<key>>, <<[k |-> "num", n |-> n]>>, FALSE)
  \/ \E text \in EditTexts : Type("c1", text)

SpecEdit == InitEdit /\ [][NextEdit]_vars

-----------------------------------------------------------------------------
(* SpecSnap: a caller that reads c1.state, keeps the object and writes to  *)
(* it and to the object inside it, while setState changes the store.       *)

SnapKinds == [key \in PropNames |->
  IF key = "a" THEN [k : {"num"}, n : Numbers] ELSE [k : {"obj"}, n : Numbers]]

InitSnap == InitWith({"form"}, {StructuredHeap})

NextSnap ==
  \/ ReadState("c1")
  \/ \E key \in {"a", "b"}, n \in Numbers : WriteSnapshot(key, n)
  \/ \E n \in Numbers : WriteNested("b", n)
  \/ \E keys \in {<<"a">>, <<"b">>} : \E kinds \in KindSeqs(keys, SnapKinds) :
       SetState("c1", keys, kinds, FALSE)
  \/ Get("c1", EmptyMap)
  \/ OnChangeState("c1", "b", "f", MaxEffects)

SpecSnap == InitSnap /\ [][NextSnap]_vars

-----------------------------------------------------------------------------
(* SpecIso: the two components of one factory, whose initialState holds an *)
(* object; each is mounted, given effects and changed by setState.         *)

\* a is given 0 or 1, b a new object {x: 1}
IsoKinds == [key \in PropNames |->
  IF key = "a" THEN [k : {"num"}, n : {0, 1}] ELSE [k : {"obj"}, n : {1}]]

InitIso == InitWith({"form"}, {StructuredHeap})

NextIso ==
  \/ \E c \in Comps, keys \in {<<"a">>, <<"b">>} :
       \E kinds \in KindSeqs(keys, IsoKinds) : SetState(c, keys, kinds, FALSE)
  \/ \E c \in Comps : Get(c, EmptyMap)
  \/ \E c \in Comps : OnChangeState(c, "a", "f", MaxEffects)
  \/ \E c \in Comps : OnChangeAny(c, "g", MaxEffects)

SpecIso == InitIso /\ [][NextIso]_vars

-----------------------------------------------------------------------------
(* SpecView: one component with the template "form", mounted by get with   *)
(* and without props and changed by setState; an effect registered for a   *)
(* raises an error.                                                        *)

\* a is given 0, 1 or undefined; b undefined or {x: 0}, {x: 1}
ViewKinds == [key \in PropNames |->
  IF key = "a" THEN [k : {"num"}, n : {0, 1}] \cup [k : {"undef"}, n : {0}]
  ELSE [k : {"obj"}, n : {0, 1}] \cup [k : {"undef"}, n : {0}]]
ViewProps == {EmptyMap, "p" :> "x", "p" :> "y"}

InitView == InitWith({"form"}, {PlainHeap, StructuredHeap})

NextView ==
  \/ \E keys \in {<<"a">>, <<"b">>, <<"a", "b">>} :
       \E kinds \in KindSeqs(keys, ViewKinds) : SetState("c1", keys, kinds, FALSE)
  \/ \E props \in ViewProps : Get("c1", props)
  \/ OnChangeState("c1", "a", Thrower, MaxEffects)
  \/ OnChangeState("c1", "b", "f", MaxEffects)

SpecView == InitView /\ [][NextView]_vars

-----------------------------------------------------------------------------
(* SpecErr: one component whose callers register, besides f and g, an      *)
(* effect that raises an error and a value that is not a function.         *)

ErrKinds == [key \in PropNames |-> [k : {"num"}, n : {0, 1}]]

InitErr == InitWith({"counter"}, {PlainHeap})

NextErr ==
  \/ \E keys \in KeySeqs({"a", "b"}) : \E kinds \in KindSeqs(keys, ErrKinds) :
       SetState("c1", keys, kinds, TRUE)
  \/ Get("c1", EmptyMap)
  \/ \E action \in {"f", Thrower, NotCallable} :
       OnChangeState("c1", "a", action, MaxEffects)
  \/ \E action \in {"g", NotCallable} : OnChangeAny("c1", action, MaxEffects)

SpecErr == InitErr /\ [][NextErr]_vars

-----------------------------------------------------------------------------
(* SpecProps: one component with the template "form" whose callers call    *)
(* get without props and with props of different keys.                     *)

PropsKinds == [key \in PropNames |-> [k : {"num"}, n : Numbers]]
GetProps ==
  {EmptyMap, "p" :> "x", "p" :> "y", "q" :> "x", ("p" :> "x") @@ ("q" :> "y")}

InitProps == InitWith({"form"}, {PlainHeap, StructuredHeap})

NextProps ==
  \/ \E props \in GetProps : Get("c1", props)
  \/ \E kinds \in KindSeqs(<<"a">>, PropsKinds) : SetState("c1", <<"a">>, kinds, FALSE)
  \/ OnChangeState("c1", "a", "f", MaxEffects)

SpecProps == InitProps /\ [][NextProps]_vars

-----------------------------------------------------------------------------
(* SpecNew: a factory with callable definitions and configured events; the *)
(* program builds the two instances, renders them, changes their state,    *)
(* adds and removes bindings and dispatches events on their roots.         *)

NewKinds == [key \in PropNames |-> [k : {"num"}, n : {0, 1}]]
NewConfig ==
  [definitions |-> "callable",
   events |-> <<[type |-> "click", listener |-> "h", selector |-> ""],
                [type |-> "", listener |-> "h", selector |-> ""]>>]

InitNew ==
  \E tid \in {"counter", "form"} :
    StartIn(Canonical(BlankWith(tid, PlainHeap, NewConfig)))

NextNew ==
  \/ \E c \in Comps : New(c)
  \/ \E c \in Comps : _state[c] # 0 /\ Get(c, EmptyMap)
  \/ \E c \in Comps : \E kinds \in KindSeqs(<<"b">>, NewKinds) :
       _state[c] # 0 /\ SetState(c, <<"b">>, kinds, FALSE)
  \/ \E c \in Comps : _state[c] # 0 /\ AddEventListener(c, "click", "k", "")
  \/ \E c \in Comps, listener \in {"h", "k"} :
       _state[c] # 0 /\ RemoveEventListener(c, "click", listener, "")
  \/ \E c \in Comps : DispatchEvent(c, "click")

SpecNew == InitNew /\ [][NextNew]_vars

-----------------------------------------------------------------------------
(* SpecMount: a factory with callable definitions and configured events;   *)
(* the program builds the two instances, asks for their elements, sets     *)
(* their state to the value it has or to another one, and gives the first  *)
(* an effect that raises an error and more bindings, before and after the  *)
(* first render.                                                           *)

MountLimit == MaxEffects

InitMount ==
  \E tid \in {"counter", "form"} :
    StartIn(Canonical(BlankWith(tid, PlainHeap, NewConfig)))

NextMount ==
  \/ \E c \in Comps : New(c)
  \/ \E c \in Comps : _state[c] # 0 /\ Get(c, EmptyMap)
  \/ \E c \in Comps, n \in {0, 1} :
       _state[c] # 0 /\ SetState(c, <<"a">>, <<[k |-> "num", n |-> n]>>, TRUE)
  \/ _state["c1"] # 0 /\ OnChangeState("c1", "a", Thrower, MountLimit)
  \/ _state["c1"] # 0 /\ AddEventListener("c1", "click", "k", "")

SpecMount == InitMount /\ [][NextMount]_vars

-----------------------------------------------------------------------------
(* SpecEvents: one mounted or not yet mounted component with the template  *)
(* "form"; bindings with and without a selector are added and removed, the *)
(* state changes patch the root or replace it, and events are dispatched   *)
(* on the root and on the <b> below it.                                    *)

EventsKinds ==
  [key \in PropNames |->
     IF key = "b" THEN [k : {"obj"}, n : {0, 1}] ELSE [k : {"num"}, n : {0, 1}]]
EventTypes == {"click"}
EventListeners == {"h", "k"}
Selectors == {"", "b"}

InitEvents == InitWith({"form"}, {StructuredHeap})

NextEvents ==
  \/ Get("c1", EmptyMap)
  \/ \E key \in {"a", "b"} : \E kinds \in KindSeqs(<<key>>, EventsKinds) :
       SetState("c1", <<key>>, kinds, FALSE)
  \/ \E type \in EventTypes, listener \in EventListeners, selector \in Selectors :
       AddEventListener("c1", type, listener, selector)
  \/ \E type \in EventTypes, listener \in EventListeners, selector \in Selectors :
       RemoveEventListener("c1", type, listener, selector)
  \/ \E type \in EventTypes : DispatchEvent("c1", type)

SpecEvents == InitEvents /\ [][NextEvents]_vars

-----------------------------------------------------------------------------
(* SpecNest: a parent c1 with the template "nest" and its child c2; the    *)
(* states of both change, so that the child patches or replaces its root   *)
(* inside the tree of the parent, and the parent moves, wraps, drops and   *)
(* shows again the root of the child.                                      *)

NestKinds == [key \in PropNames |-> [k : {"num"}, n : {0, 1}]]

InitNest == InitWith({"nest"}, {PlainHeap})

NextNest ==
  \/ Get(NestParent, EmptyMap)
  \/ \E c \in Comps, key \in {"a", "b"} :
       \E kinds \in KindSeqs(<<key>>, NestKinds) : SetState(c, <<key>>, kinds, FALSE)
  \/ \E kinds \in KindSeqs(<<"a", "b">>, NestKinds) :
       SetState(NestParent, <<"a", "b">>, kinds, FALSE)

SpecNest == InitNest /\ [][NextNest]_vars

-----------------------------------------------------------------------------
(* SpecStore: the state store of one component, called directly with known *)
(* and unknown keys and with numbers, undefined, new objects, the stored   *)
(* value itself and a deep copy of it.                                     *)

InitStore == InitWith({"counter"}, {PlainHeap, StructuredHeap})

NextStore ==
  \E key \in {"a", "b", "z"}, kind \in ArgKinds : Change("c1", key, kind)

SpecStore == InitStore /\ [][NextStore]_vars

-----------------------------------------------------------------------------
(* SpecCopy: copyNode called on a pair of trees. into is the child of an   *)
(* element, as in the calls copyNode makes for the children of a live      *)
(* tree; node is the root of a tree of its own. The roots of the two and   *)
(* the last child of node belong to no component or are the elements of    *)
(* c1 or c2; c2 has a click binding, which its elements carry.             *)

CopyKids(Leaves) == UNION {[1..n -> Leaves] : n \in 0..MaxKids}
CopyAttrs == {NoAttrs, [NoAttrs EXCEPT !["class"] = "k"]}
CopyTrees(Leaves) ==
  {Text("t"), Text("u")}
    \cup {El(tag, attrs, kids) : tag \in {"div", "p"}, attrs \in CopyAttrs,
                                 kids \in CopyKids(Leaves)}
\* the live trees and the new trees
IntoTrees == CopyTrees({Text("t"), El("b", NoAttrs, <<>>)})
NodeTrees == CopyTrees({Text("t"), Text("u"), El("b", NoAttrs, <<>>)})

\* el.component = c for the element el of a rendered component c
markElement(w, el, c) ==
  IF c = NoComp THEN w
  ELSE putEvents([w EXCEPT !.nodes[el].component = c], c, el)

\* the world in which copyNode is called: v names into and node
CopyWorld(intoTree, nodeTree, intoOwner, nodeOwner, kidOwner) ==
  LET w0 == addEventListener(Constructed("counter", PlainHeap), "c2", "click", "h", "")
      r0 == Instantiate(w0.nodes, El("div", NoAttrs, <<>>), 0)
      r1 == Instantiate(r0.n, intoTree, r0.v)
      r2 == Instantiate([r1.n EXCEPT ![r0.v].kids = <<r1.v>>], nodeTree, 0)
      kids == r2.n[r2.v].kids
      w1 == markElement([w0 EXCEPT !.nodes = r2.n], r1.v, intoOwner)
      w2 == markElement(w1, r2.v, nodeOwner)
      w3 == IF kids = <<>> THEN w2 ELSE markElement(w2, kids[Len(kids)], kidOwner)
  IN  [w |-> w3, v |-> [into |-> r1.v, node |-> r2.v]]

InitCopy ==
  \E intoTree \in IntoTrees, nodeTree \in NodeTrees :
    \E intoOwner \in Comps \cup {NoComp}, nodeOwner \in Comps \cup {NoComp},
       kidOwner \in {NoComp, "c2"} :
      \E r \in {CopyWorld(intoTree, nodeTree, intoOwner, nodeOwner, kidOwner)} :
        /\ template = r.w.template /\ initialState = r.w.initialState
        /\ definitions = r.w.definitions /\ events0 = r.w.events0
        /\ bindings = r.w.bindings
        /\ objs = r.w.objs /\ _state = r.w._state /\ _props = r.w._props
        /\ element = r.w.element /\ events = r.w.events /\ al = r.w.al
        /\ globals = r.w.globals /\ nodes = r.w.nodes /\ snap = r.w.snap
        /\ op = [name |-> "new", c |-> NoComp, arg |-> <<>>,
                 into |-> r.v.into, node |-> r.v.node]
        /\ log = <<>> /\ err = "none"
        /\ threw = [c \in Comps |-> FALSE]
        /\ firstKey = [c \in Comps |-> ""]
        /\ replaced = [c \in Comps |-> 0]

\* c1.copyNode(into, node), or c1.copyNode(into, into) when same: the call
\* keeps the node it returns, and the history the nodes as they were when
\* the call began
CopyNode(same) ==
  /\ op.name = "new"
  /\ \E node \in {IF same THEN op.into ELSE op.node} :
     \E r \in {copyNode(Enter, "c1", op.into, node)} :
       /\ nodes' = r.w.nodes
       /\ bindings' = r.w.bindings
       /\ log' = r.w.log
       /\ err' = r.w.err
       /\ op' = [name |-> "copyNode", c |-> "c1", arg |-> <<>>,
                  into |-> op.into, node |-> node, ret |-> r.v,
                  before |-> nodes]
  /\ UNCHANGED <<template, initialState, definitions, events0, objs, _state,
                 _props, element, events, al, globals, snap, threw, firstKey,
                 replaced>>

NextCopy == \E same \in BOOLEAN : CopyNode(same)

SpecCopy == InitCopy /\ [][NextCopy]_vars

-----------------------------------------------------------------------------
(* SpecSwap: one render of the parent c1, whose template puts the element  *)
(* of its child c2 first in the new tree, directly under the root or in a  *)
(* <section>, followed by a text. The live tree of c1 has the same shape   *)
(* and holds in that place the element of c2 itself, the element of        *)
(* another child, or a plain <span>.                                       *)

\* a third instance, the child the parent showed before: only its element
\* takes part
OtherChild == "c3"
SwapTexts == {"0", "1"}
SwapShape(wrap, kid, tail) ==
  El("div", NoAttrs,
     (IF wrap THEN <<El("section", NoAttrs, kid)>> ELSE kid) \o <<Text(tail)>>)
SwapChild(text) == El("span", NoAttrs, <<Text(text)>>)

\* where the template puts the element of the child: the root or its <section>
SwapPlace(ns, root, wrap) == IF wrap THEN ns[root].kids[1] ELSE root

\* child becomes the first child of place, before the text place may hold
swapPut(ns, place, child) ==
  [appendChild(ns, place, child) EXCEPT ![place].kids = <<child>> \o ns[place].kids]

\* the element r of c2
swapElement(w, r) ==
  markElement([w EXCEPT !.nodes = r.n, !.element["c2"] = r.v], r.v, "c2")
\* the live tree r of c1: the place holds the element of c2, or a <span>
\* that is the element of another child or plain
swapLive(w, r, place, child, before) ==
  markElement([w EXCEPT !.nodes = IF before = "c2" THEN swapPut(r.n, place, child)
                                  ELSE [r.n EXCEPT ![r.n[place].kids[1]].component = before],
                        !.element["c1"] = r.v],
              r.v, "c1")
\* the template: create("div", {}, [c2.get(), tail]), with or without the
\* <section>; r is the new tree before the element of c2 is put into it
swapTemplate(w, r, place, child) ==
  [w |-> [w EXCEPT !.nodes = swapPut(r.n, place, child)],
   v |-> [node |-> r.v, child |-> child]]

swapNew(w, r, wrap, child) == swapTemplate(w, r, SwapPlace(r.n, r.v, wrap), child)
swapOld(w, r, wrap, child, before) ==
  swapLive(w, r, SwapPlace(r.n, r.v, wrap), child, before)
swapNewIn(w, wrap, child, newTail) ==
  swapNew(w, Instantiate(w.nodes, SwapShape(wrap, <<>>, newTail), 0), wrap, child)
swapBoth(w, child, wrap, before, kid, tail, newTail) ==
  swapNewIn(swapOld(w, Instantiate(w.nodes, SwapShape(wrap, kid, tail), 0),
                    wrap, child, before),
            wrap, child, newTail)
swapFrom(w, r, wrap, before, kid, tail, newTail) ==
  swapBoth(swapElement(w, r), r.v, wrap, before, kid, tail, newTail)

\* the world before the render and the tree the template returns: v names
\* the new root and the element of c2
SwapWorld(wrap, before, prev, text, tail, newTail) ==
  swapFrom(addEventListener(Constructed("counter", PlainHeap), "c2", "click", "h", ""),
           Instantiate(<<>>, SwapChild(text), 0),
           wrap, before,
           IF before = "c2" THEN <<>> ELSE <<SwapChild(prev)>>,
           tail, newTail)

InitSwap ==
  \E wrap \in BOOLEAN, before \in {"c2", OtherChild, NoComp} :
    \E prev \in SwapTexts, text \in SwapTexts, tail \in SwapTexts, newTail \in SwapTexts :
      \E r \in {SwapWorld(wrap, before, prev, text, tail, newTail)} :
        /\ template = r.w.template /\ initialState = r.w.initialState
        /\ definitions = r.w.definitions /\ events0 = r.w.events0
        /\ bindings = r.w.bindings
        /\ objs = r.w.objs /\ _state = r.w._state /\ _props = r.w._props
        /\ element = r.w.element /\ events = r.w.events /\ al = r.w.al
        /\ globals = r.w.globals /\ nodes = r.w.nodes /\ snap = r.w.snap
        /\ op = [name |-> "new", c |-> NoComp, arg |-> <<>>,
                 node |-> r.v.node, child |-> r.v.child, wrap |-> wrap,
                 before |-> before, equal |-> before # "c2" /\ prev = text]
        /\ log = <<>> /\ err = "none"
        /\ threw = [c \in Comps |-> FALSE]
        /\ firstKey = [c \in Comps |-> ""]
        /\ replaced = [c \in Comps |-> 0]

\* c1.render(), from the point where the template has returned op.node
Render ==
  /\ op.name = "new"
  /\ \E w \in {renderTree(Enter, "c1", [w |-> Enter, v |-> op.node])} :
       /\ nodes' = w.nodes
       /\ bindings' = w.bindings
       /\ element' = w.element
       /\ log' = w.log
       /\ err' = w.err
       /\ op' = [op EXCEPT !.name = "render", !.c = "c1"]
  /\ UNCHANGED <<template, initialState, definitions, events0, objs, _state,
                 _props, events, al, globals, snap, threw, firstKey, replaced>>

NextSwap == Render

SpecSwap == InitSwap /\ [][NextSwap]_vars

-----------------------------------------------------------------------------
(* What the histories op, log and err say about the last call *)

\* the keys of the object c.state returns
SnapshotKeys(c) == LET r == value(objs, _state[c]) IN Keys(r.h, r.v)
\* the contents of the object c.state returns, in the heap h with the stores s
SnapshotIn(h, s, c) == LET r == value(h, s[c]) IN Contents(r.h, Ref(r.v))
\* the last call was c.setState(...)
IsSetState(call, c) == call.name = "setState" /\ call.c = c
ArgKeys(call) == {call.arg[i].key : i \in 1..Len(call.arg)}
\* the entries of the log that are calls of effects
IsEffect(e) == e.ev \in {"effect", "global"}
Effects(l) == SelectSeq(l, IsEffect)
Logged(ev) == \E i \in 1..Len(log) : log[i].ev = ev
LoggedEffect(key) == \E i \in 1..Len(log) : log[i].ev = "effect" /\ log[i].key = key

\* C3: a key of the argument of setState that the initial state does not
\* have is ignored: the call raises no error, the key is neither in the store
\* nor in the snapshot afterwards, and no effect registered for it is called;
\* a key the initial state has, given in the same call, holds the value given.
C3_UnknownKeyIgnored ==
  IsSetState(op, "c1") =>
    \A i \in 1..Len(op.arg) :
      LET key == op.arg[i].key
      IN  IF key \in Keys(objs, initialState)
            THEN objs[_state["c1"]][key] = op.arg[i].val
            ELSE /\ err = "none"
                 /\ ~hasOwnProperty(objs, _state["c1"], key)
                 /\ key \notin SnapshotKeys("c1")
                 /\ ~LoggedEffect(key)
\* setState({z: 0, a: v}) with an effect registered for z has changed a
C3_Witness ==
  /\ IsSetState(op, "c1") /\ Len(op.arg) = 2
  /\ op.arg[1].key = "z" /\ op.arg[2].key = "a" /\ ~op.arg[2].held
  /\ "z" \in DOMAIN al["c1"]
  /\ Logged("template")

\* C4 (as the specification states it): whatever values setState is given,
\* the keys of the snapshot are the keys of the initial state.
C4_FixedKeySet == SnapshotKeys("c1") = Keys(objs, initialState)

\* C8: an assignment to c.state raises an error and changes neither the
\* store nor the tree nor the lists of effects and event listeners, and it
\* calls no effect and no template.
C8_StateWriteGuard ==
  [][op'.name = "state=" =>
       /\ err' = "Error" /\ log' = <<>>
       /\ UNCHANGED <<objs, _state, _props, element, nodes, events, al, globals>>]_vars
\* an assignment to the state of a mounted component with effects has raised
C8_Witness ==
  /\ op.name = "state=" /\ err = "Error"
  /\ element["c1"] # 0 /\ al["c1"] # EmptyMap /\ globals["c1"] # <<>>

\* the last call gave every key the very value the store held for it
AllHeld(call) == \A i \in 1..Len(call.arg) : call.arg[i].held

\* C2 (amended): a setState that gives every key a value strictly identical
\* (===) to the one the store holds, the stored object itself or the same
\* number or undefined, calls no effect and no template and leaves the live
\* tree the same object with the same structure.
C2_NoOpIdentical ==
  [][(IsSetState(op', "c1") /\ AllHeld(op')) =>
       /\ log' = <<>> /\ err' = "none"
       /\ UNCHANGED <<element, nodes>>]_vars
\* setState({a: s.a, b: s.b}) with the stored object of b, on a mounted
\* component that has effects for a and for any key
C2_Witness ==
  /\ IsSetState(op, "c1") /\ Len(op.arg) = 2 /\ AllHeld(op)
  /\ \E i \in 1..2 : op.arg[i].val.t = "ref"
  /\ element["c1"] # 0 /\ "a" \in DOMAIN al["c1"] /\ globals["c1"] # <<>>
  /\ log = <<>>
\* C2 (as the specification states it): the same for every value equal to
\* the one held, as is a value just read from c.state.
C2_NoOpEqual ==
  [][(/\ IsSetState(op', "c1")
      /\ \A i \in 1..Len(op'.arg) :
           /\ hasOwnProperty(objs, _state["c1"], op'.arg[i].key)
           /\ Contents(objs', op'.arg[i].val)
                = Contents(objs, objs[_state["c1"]][op'.arg[i].key])) =>
       /\ log' = <<>> /\ err' = "none"
       /\ UNCHANGED <<element, nodes>>]_vars

\* C5: setState leaves the value of every key its argument does not name as
\* it was, and the per-key effects it calls are for keys of the argument
\* whose value it changed: none for a key that is not named and none for a
\* named key that is given the value it holds.
C5_SetStateFrame ==
  [][IsSetState(op', "c1") =>
       /\ \A k \in Keys(objs, _state["c1"]) \ ArgKeys(op') :
            /\ hasOwnProperty(objs', _state'["c1"], k)
            /\ Contents(objs', objs'[_state'["c1"]][k])
                 = Contents(objs, objs[_state["c1"]][k])
       /\ \A j \in 1..Len(log') :
            log'[j].ev = "effect" =>
              \E i \in 1..Len(op'.arg) :
                op'.arg[i].key = log'[j].key /\ ~op'.arg[i].held]_vars
\* setState({b: v}) has changed the object b holds while a has an effect
C5_Witness ==
  /\ IsSetState(op, "c1") /\ Len(op.arg) = 1
  /\ op.arg[1].key = "b" /\ ~op.arg[1].held /\ op.arg[1].val.t = "ref"
  /\ "a" \in DOMAIN al["c1"]
  /\ Logged("template") /\ ~LoggedEffect("a")

\* the keys of the argument that the call changed, in the order of the argument
RECURSIVE ChangedKeys(_, _)
ChangedKeys(arg, i) ==
  IF i > Len(arg) THEN <<>>
  ELSE IF ~arg[i].held /\ arg[i].key \in Keys(objs, initialState)
    THEN <<arg[i].key>> \o ChangedKeys(arg, i + 1)
  ELSE ChangedKeys(arg, i + 1)
\* one call of each effect registered for each of the keys: key after key,
\* and for one key in the order of registration
RECURSIVE PerKeyCalls(_, _, _)
PerKeyCalls(c, keys, i) ==
  IF i > Len(keys) THEN <<>>
  ELSE (IF keys[i] \in DOMAIN al[c]
          THEN [j \in 1..Len(al[c][keys[i]]) |-> EffectEntry(c, keys[i], al[c][keys[i]][j])]
          ELSE <<>>) \o PerKeyCalls(c, keys, i + 1)
\* one call of each effect registered for any key, with the changed keys
GlobalCalls(c, keys) ==
  IF keys = <<>> THEN <<>>
  ELSE [j \in 1..Len(globals[c]) |-> GlobalEntry(c, globals[c][j], keys)]

\* C9: the effects one setState calls are the effects of the changed keys,
\* key after key in the order of the argument and for each key in the order
\* of registration, and after all of them the effects for any key.
C9_DispatchOrder ==
  IsSetState(op, "c1") =>
    LET changed == ChangedKeys(op.arg, 1)
    IN  Effects(log) = PerKeyCalls("c1", changed, 1) \o GlobalCalls("c1", changed)
\* setState({b: v, a: w}) has changed both keys of a component with two
\* different effects for a, one for b and one for any key
C9_Witness ==
  /\ IsSetState(op, "c1") /\ ChangedKeys(op.arg, 1) = <<"b", "a">>
  /\ DOMAIN al["c1"] = {"a", "b"}
  /\ Len(al["c1"]["a"]) = 2 /\ al["c1"]["a"][1] # al["c1"]["a"][2]
  /\ globals["c1"] # <<>>
  /\ Len(Effects(log)) = 4

\* effects were registered for a and then for b, there is one effect g for
\* any key, and the last call was setState({b: v, a: w}) and changed both
RegisteredThenSuppliedReversed ==
  /\ IsSetState(op, "c1") /\ ChangedKeys(op.arg, 1) = <<"b", "a">>
  /\ firstKey["c1"] = "a" /\ DOMAIN al["c1"] = {"a", "b"}
  /\ globals["c1"] = <<"g">>
\* the log is the effects of key first, then those of key second, then g
\* once with the keys b, a
FiredInOrder(first, second) ==
  LET e == Effects(log)
      n == Len(al["c1"][first])
      m == Len(al["c1"][second])
  IN  /\ Len(e) = n + m + 1
      /\ \A i \in 1..n : e[i] = EffectEntry("c1", first, al["c1"][first][i])
      /\ \A i \in 1..m : e[n + i] = EffectEntry("c1", second, al["c1"][second][i])
      /\ e[n + m + 1] = GlobalEntry("c1", "g", <<"b", "a">>)

\* C10 (amended): with effects registered for a and then for b and an effect
\* g for any key, a setState that names b before a and changes both calls
\* the effects of b first, then the effects of a, then g once with the keys
\* b, a.
C10_SuppliedOrder == RegisteredThenSuppliedReversed => FiredInOrder("b", "a")
C10_Witness == RegisteredThenSuppliedReversed /\ Len(Effects(log)) >= 3 /\ err = "none"
\* C10 (as the specification states it): ... calls the effects of a first,
\* then the effects of b, then g once with the keys b, a.
C10_RegistrationOrder == RegisteredThenSuppliedReversed => FiredInOrder("a", "b")

\* the objects that can be reached from the objects roots
Reachable(roots) == Range(VisitObjs(objs, roots, <<>>))
\* the object the caller holds has no object in common with the stores
SnapshotApart ==
  Reachable(<<snap>>)
    \cap Reachable(<<initialState, _state["c1"], _state["c2"]>>) = {}

TreeIn(ns, el, c) == IF el[c] = 0 THEN <<"none">> ELSE <<Struct(ns, el[c])>>

\* C6: a setState on one of the two components of a factory leaves the
\* snapshot, the effects and the tree of the other as they were, and calls
\* no effect and no template of the other.
C6_StateIsolation ==
  [][\A c \in Comps : \A d \in Comps \ {c} :
       IsSetState(op', c) =>
         /\ SnapshotIn(objs', _state', d) = SnapshotIn(objs, _state, d)
         /\ TreeIn(nodes', element', d) = TreeIn(nodes, element, d)
         /\ \A j \in 1..Len(log') : log'[j].c = c]_vars
\* setState has changed c1, called its effects and replaced its tree while
\* c2, mounted and with effects of its own, holds another state
C6_Witness ==
  /\ IsSetState(op, "c1") /\ Logged("effect") /\ Logged("global") /\ Logged("replace")
  /\ element["c2"] # 0 /\ "a" \in DOMAIN al["c2"] /\ globals["c2"] # <<>>
  /\ SnapshotIn(objs, _state, "c1") # SnapshotIn(objs, _state, "c2")

\* what the template makes of the state and the props c has now
ExpectedView(c) ==
  LET r == value(objs, _state[c])
  IN  TemplateTree(template, r.h, r.v, _props[c])

\* C1: the live tree of a mounted component none of whose effects has raised
\* an error has the tags, attributes, children and text of the tree the
\* template makes of the current state and props.
C1_ViewFollowsState ==
  \A c \in Comps :
    (element[c] # 0 /\ ~threw[c]) => Struct(nodes, element[c]) = ExpectedView(c)
\* setState has patched the mounted tree of c1, which now has a class, an
\* <input> and a <b> and shows a state other than the initial one
C1_Witness ==
  /\ IsSetState(op, "c1") /\ Logged("patch") /\ ~threw["c1"]
  /\ element["c1"] # 0
  /\ Len(nodes[element["c1"]].kids) = 3
  /\ nodes[element["c1"]].attrs["class"] = "1"
  /\ SnapshotIn(objs, _state, "c1") # Contents(objs, Ref(initialState))

\* the entries of the log that are calls of effects for any key
IsGlobal(e) == e.ev = "global"
GlobalsLogged == SelectSeq(log, IsGlobal)
\* the places of the log where ev was logged
Places(ev) == {i \in 1..Len(log) : log[i].ev = ev}

\* C11: a setState that changes at least one key calls each effect for any
\* key exactly once, with the list of exactly the keys the call changed, and
\* all of these calls come before the call of the template.
C11_GlobalOnce ==
  (IsSetState(op, "c1") /\ ChangedKeys(op.arg, 1) # <<>>) =>
    /\ GlobalsLogged = GlobalCalls("c1", ChangedKeys(op.arg, 1))
    /\ Cardinality(Places("template")) = 1
    /\ \A i \in Places("global"), j \in Places("template") : i < j
\* setState({z: 0, a: v}) has changed a alone, and the component has an
\* effect for any key
C11_Witness ==
  /\ IsSetState(op, "c1") /\ Len(op.arg) = 2 /\ op.arg[1].key = "z"
  /\ ChangedKeys(op.arg, 1) = <<"a">>
  /\ globals["c1"] # <<>> /\ Len(GlobalsLogged) = Len(globals["c1"])

\* C12 (as the comment of onChangeAny states it): when one setState changes
\* several keys, an effect for any key is called once for each changed key.
C12_OncePerChangedKey ==
  IsSetState(op, "c1") =>
    Len(GlobalsLogged) = Len(globals["c1"]) * Len(ChangedKeys(op.arg, 1))

\* the values registered as effects of c, for a key or for any key
Registered(c) ==
  UNION {Range(al[c][k]) : k \in DOMAIN al[c]} \cup Range(globals[c])

\* C18 (as the specification states it): onChangeState and onChangeAny with
\* a value that is not a function end in a TypeError and leave the lists of
\* effects as they were, so that no list ever holds such a value.
C18_RejectsNotCallable ==
  /\ (op.name \in {"onChangeState", "onChangeAny"} /\ op.action = NotCallable)
       => err = "TypeError"
  /\ NotCallable \notin Registered("c1")

\* C19 (as the specification states it): a setState that ends in an error
\* leaves the store as it was before the call and calls no template.
C19_AtomicFailure ==
  [][(IsSetState(op', "c1") /\ err' # "none") =>
       /\ Contents(objs', Ref(_state'["c1"])) = Contents(objs, Ref(_state["c1"]))
       /\ \A i \in 1..Len(log') : log'[i].ev # "template"]_vars

\* C15: after get(props) the props of the component are exactly the mapping
\* given (no key of earlier props is kept; get() leaves no props), the call
\* has called the template once, with these props, and the node it returns
\* is the live root of the component itself.
C15_GetReplacesProps ==
  op.name = "get" =>
    /\ _props[op.c] = op.props
    /\ \E i \in 1..Len(log) : log[i] = TemplateEntry(op.c, op.props)
    /\ Cardinality(Places("template")) = 1
    /\ op.ret # 0 /\ op.ret = element[op.c]
    /\ Struct(nodes, op.ret) = ExpectedView(op.c)
\* get({q: "x"}) on a component whose live tree showed the <input> of
\* earlier props with p: the call has patched the tree
C15_Witness ==
  /\ op.name = "get" /\ op.props = ("q" :> "x")
  /\ Logged("patch") /\ Len(nodes[element["c1"]].kids) < 3
  /\ \A i \in 1..Len(nodes[element["c1"]].kids) :
       nodes[nodes[element["c1"]].kids[i]].tag # "input"

-----------------------------------------------------------------------------
(* Factory definitions *)

DefinitionsAt(c) == Places("definitions") \cap {i \in DOMAIN log : log[i].c = c}
WiredAt(c) == Places("wire") \cap {i \in DOMAIN log : log[i].c = c}
TemplatesOf(c) == Places("template") \cap {i \in DOMAIN log : log[i].c = c}
Renders(c) ==
  {i \in DOMAIN log : log[i].ev \in {"mount", "patch", "replace"} /\ log[i].c = c}

\* C17 (as the code has it): callable definitions run exactly once in the
\* construction of an instance, in that instance's context and after its
\* state store and effect registry are wired, so that the effect they
\* register is kept; no later call runs them again, and a call that renders
\* runs the template once per render.
C17_DefinitionsAfterWiring ==
  /\ op.name = "new" /\ op.c \in Comps =>
        /\ err = "none"
        /\ Cardinality(Places("definitions")) = 1
        /\ Cardinality(DefinitionsAt(op.c)) = 1
        /\ \A d \in DefinitionsAt(op.c) : \E v \in WiredAt(op.c) : v < d
        /\ al[op.c] = "a" :> <<"f">>
        /\ Places("template") = {}
  /\ op.name # "new" => Places("definitions") = {}
  /\ op.name = "get" => Cardinality(TemplatesOf(op.c)) = 1
  /\ op.name \in {"get", "setState"} =>
        /\ Places("template") = TemplatesOf(op.c)
        /\ Cardinality(TemplatesOf(op.c)) <= 1
        /\ Cardinality(Renders(op.c)) <= Cardinality(TemplatesOf(op.c))
\* both instances are built, one of them has been rendered and the last
\* call is a change of state that rendered it again
C17_Witness ==
  /\ op.name = "setState" /\ Renders(op.c) # {}
  /\ \A c \in Comps : _state[c] # 0 /\ "a" \in DOMAIN al[c]
\* C17 as stated: the definitions run before the state store and the effect
\* registry of the instance are wired
C17_DefinitionsBeforeWiring ==
  op.name = "new" /\ op.c \in Comps =>
    \A d \in DefinitionsAt(op.c) : \A v \in WiredAt(op.c) : d < v

-----------------------------------------------------------------------------
(* Event bindings *)

\* the bindings of c, and what each of them was added with
BindingsOf(c) == [i \in 1..Len(events[c]) |-> bindings[events[c][i]]]
Tuple(b) == [type |-> b.type, listener |-> b.listener, selector |-> b.selector]
Tuples(c) == [i \in 1..Len(events[c]) |-> Tuple(BindingsOf(c)[i])]

\* every binding of c has a wrapper of its own, made for c and for the
\* binding, and the listeners of the live root are exactly these wrappers
RegisteredOnce(c) ==
  element[c] # 0 =>
    /\ nodes[element[c]].listeners =
          {[type |-> b.type, fn |-> b._listener] : b \in Range(BindingsOf(c))}
    /\ Cardinality({b._listener.id : b \in Range(BindingsOf(c))}) = Len(events[c])
    /\ \A b \in Range(BindingsOf(c)) :
          /\ b._listener # NoWrapper
          /\ b._listener.this = c
          /\ b._listener.listener = b.listener
          /\ b._listener.selector = b.selector

\* the calls of listener the last event made through bindings with selector
Invocations(listener, selector) ==
  Cardinality({i \in Places("event") :
                 /\ log[i].c = op.c /\ log[i].key = op.key
                 /\ log[i].fn = listener /\ log[i].arg = <<selector>>})
\* the bindings of c for the type, the listener and the selector
Bound(c, type, listener, selector) ==
  Cardinality({i \in 1..Len(events[c]) :
                 Tuples(c)[i] = [type |-> type, listener |-> listener,
                                 selector |-> selector]})
\* the target of the last event is inside an element the selector names
Admits(selector) == selector = "" \/ selector \in op.tags

\* C13 (as the code has it): after any renders, patching or replacing the
\* root, every binding of the component is registered exactly once on the
\* live root, with a wrapper of its own; an event on the live tree calls
\* the listener once for each binding without selector and once for each
\* binding whose selector names the target or an ancestor of it, and makes
\* no other call: a binding whose selector names none of them is not called.
C13_RegisteredOnce ==
  /\ RegisteredOnce("c1")
  /\ op.name = "dispatchEvent" =>
        /\ \A l \in EventListeners, s \in Selectors :
              Invocations(l, s) =
                IF Admits(s) THEN Bound("c1", op.key, l, s) ELSE 0
        /\ \A i \in Places("event") :
              /\ log[i].c = "c1" /\ log[i].fn \in EventListeners
              /\ log[i].arg[1] \in Selectors
\* an event on the root, after three renders that replaced the root while
\* the component had bindings, has called a listener
C13_Witness ==
  /\ op.name = "dispatchEvent" /\ op.onRoot
  /\ replaced["c1"] >= 3
  /\ Places("event") # {}
\* C13 as stated: an event on the live root calls the listener of every
\* binding exactly once
C13_EveryBindingFires ==
  (op.name = "dispatchEvent" /\ op.onRoot) =>
    \A l \in EventListeners, s \in Selectors :
      Invocations(l, s) = Bound("c1", op.key, l, s)

\* what the last call of addEventListener or removeEventListener was given
Given(call) ==
  [type |-> call.key, listener |-> call.action, selector |-> call.selector]
\* the places of the bindings of c that were added with exactly this
FirstOf(c, given) == {i \in 1..Len(events[c]) : Tuples(c)[i] = given}
\* the last event called each listener once for every binding that admits
\* the target, and made no other call
FiresPerBinding ==
  op.name = "dispatchEvent" =>
    \A l \in EventListeners, s \in Selectors :
      Invocations(l, s) = IF Admits(s) THEN Bound("c1", op.key, l, s) ELSE 0
RendersNothing == \A i \in DOMAIN log : log[i].ev \notin {"template", "mount", "patch", "replace"}

\* C14: addEventListener puts the new binding at the end of the list and,
\* on a mounted component, registers it on the live root at once, without
\* a render; a removeEventListener that matches takes the first matching
\* binding out of the list and its wrapper off the live root, so that in
\* every later state, after any renders and root replacements, an event
\* calls a listener exactly once for each binding still in the list; a
\* removeEventListener that matches nothing changes nothing.
C14_AddAndRemove ==
  /\ [](RegisteredOnce("c1") /\ FiresPerBinding)
  /\ [][/\ op'.name = "addEventListener" =>
             /\ Tuples("c1")' = Append(Tuples("c1"), Given(op'))
             /\ RendersNothing'
        /\ op'.name = "removeEventListener" =>
             /\ RendersNothing'
             /\ Tuples("c1")' =
                   IF FirstOf("c1", Given(op')) = {} THEN Tuples("c1")
                   ELSE splice(Tuples("c1"),
                               CHOOSE i \in FirstOf("c1", Given(op')) :
                                 \A j \in FirstOf("c1", Given(op')) : i <= j)]_vars
\* a binding has been removed from a mounted component whose root has been
\* replaced and that still has another binding
C14_Witness ==
  /\ op.name = "removeEventListener" /\ op.matched
  /\ element["c1"] # 0 /\ replaced["c1"] >= 1
  /\ events["c1"] # <<>>

-----------------------------------------------------------------------------
(* The bindings of the instances of one factory *)

\* the configured events list, as the factory was given it
ConfigTuples == [i \in 1..Len(events0) |-> Tuple(bindings[events0[i]])]
\* the entries of the configuration that have a type and a listener
Configured == SelectSeq(NewConfig.events, LAMBDA e : e.type # "" /\ e.listener # "")
WrappersOf(c) == {b._listener : b \in Range(BindingsOf(c))} \ {NoWrapper}

\* C16: the instances of a factory share no binding entry with each other
\* or with the configured list, and no wrapper; a new instance has a copy
\* of every configured entry that has a type and a listener; the configured
\* list never changes and none of its entries gets a wrapper; adding or
\* removing a binding of one instance leaves the bindings of the other
\* instance as they were, and every call of a listener by an event on the
\* tree of an instance has that instance as context.
C16_OwnBindings ==
  /\ [](/\ Range(events["c1"]) \cap Range(events["c2"]) = {}
        /\ \A c \in Comps : Range(events[c]) \cap Range(events0) = {}
        /\ \A c \in Comps : \A fn \in WrappersOf(c) : fn.this = c
        /\ {fn.id : fn \in WrappersOf("c1")} \cap {fn.id : fn \in WrappersOf("c2")} = {}
        /\ \A c \in Comps : RegisteredOnce(c)
        /\ ConfigTuples = NewConfig.events
        /\ \A e \in Range(events0) : bindings[e]._listener = NoWrapper
        /\ (op.name = "new" /\ op.c \in Comps) => Tuples(op.c) = Configured
        /\ op.name = "dispatchEvent" =>
              /\ \A i \in Places("event") : log[i].c = op.c
              /\ Cardinality(Places("event")) = Len(events[op.c]))
  /\ [][\A d \in Comps :
          (op'.c # d /\ _state[d] # 0) => Tuples(d)' = Tuples(d)]_vars
\* both instances are mounted, the first has one binding more than the
\* second, and an event on the root of the second has called its listener
C16_Witness ==
  /\ op.name = "dispatchEvent" /\ op.c = "c2" /\ Places("event") # {}
  /\ element["c1"] # 0
  /\ Len(events["c1"]) > Len(events["c2"])

-----------------------------------------------------------------------------
(* Ownership *)

\* C20: every node whose attributes or children the reconciler of a
\* component changes belongs to that component: the node or its nearest
\* marked ancestor is marked by the component itself. A node marked by
\* another component, and what is below it, is only ever replaced as a
\* whole or taken out as a whole.
C20_OwnershipBoundary ==
  \A i \in Places("reconcile") : log[i].key = log[i].c
\* the parent has changed nodes of its own live tree and has put a plain
\* node of the same tag in the place of the root of its child
C20_Witness ==
  /\ \E i \in Places("reconcile") : log[i].c = NestParent
  /\ \E i \in Places("swap") :
        /\ log[i].c = NestParent /\ log[i].key = NestChild
        /\ log[i].arg = <<TRUE>>

-----------------------------------------------------------------------------
(* The state store *)

\* C27: change(key, value) returns true exactly when the store has the key
\* and the value is not the very value stored for it (===): a new object or
\* a deep copy with the same contents counts as changed; the store then
\* holds the value. For a key the store does not have it returns false and
\* the store is as it was.
C27_ChangeByIdentity ==
  [][op'.name = "change" =>
       LET key == op'.arg[1].key
           known == hasOwnProperty(objs, _state["c1"], key)
       IN  /\ op'.ret = (known /\ ~op'.arg[1].held)
           /\ known => objs'[_state'["c1"]][key] = op'.arg[1].val
           /\ ~known => /\ ~hasOwnProperty(objs', _state'["c1"], key)
                         /\ Contents(objs', Ref(_state'["c1"]))
                              = Contents(objs, Ref(_state["c1"]))]_vars
\* change was given a deep copy of the object the store holds, and
\* returned true
C27_Witness ==
  /\ op.name = "change" /\ op.kind = "read"
  /\ op.arg[1].val.t = "ref" /\ op.ret

-----------------------------------------------------------------------------
\* the list of effects of c1 for a key, empty for a key that has none
ListOf(effects, key) ==
  IF key \in DOMAIN effects["c1"] THEN effects["c1"][key] ELSE <<>>

\* C28: c.offChangeState(key, action) with an action takes the first
\* occurrence of action out of the list of key and leaves every other
\* listener where it was, in the same order; it returns true exactly when
\* there was an occurrence; the other lists and the global list stay as they
\* are; and a setState invokes, for each key, only functions that were in the
\* list of the key when it was called, so an action that was removed and is
\* no longer in the list is not invoked.
C28_RemovesFirstOccurrence ==
  [][/\ (op'.name = "offChangeState" /\ op'.action # NoAction) =>
         LET before == ListOf(al, op'.key)
             after == ListOf(al', op'.key)
             found == \E i \in 1..Len(before) : before[i] = op'.action
         IN  /\ op'.ret = found
             /\ ~found => after = before
             /\ found =>
                  \E i \in 1..Len(before) :
                    /\ before[i] = op'.action
                    /\ \A j \in 1..(i - 1) : before[j] # op'.action
                    /\ Len(after) = Len(before) - 1
                    /\ \A j \in 1..Len(after) :
                         after[j] = IF j < i THEN before[j] ELSE before[j + 1]
             /\ \A key \in PropNames \ {op'.key} : ListOf(al', key) = ListOf(al, key)
             /\ globals' = globals
     /\ op'.name = "setState" =>
         \A i \in 1..Len(log') :
           log'[i].ev = "effect" => log'[i].fn \in Range(ListOf(al, log'[i].key))]_vars
\* a removal that found f, with another f and one more listener left behind
C28_Witness ==
  /\ op.name = "offChangeState" /\ op.action = "f" /\ op.ret
  /\ Len(ListOf(al, "a")) = 2
  /\ \E i, j \in 1..2 : ListOf(al, "a")[i] = "f" /\ ListOf(al, "a")[j] # "f"

FromListOf(i, j) ==
  /\ log[i].ev = "remove" /\ log[j].c = log[i].c
  /\ \/ log[i].key = "" /\ log[j].ev = "global"
     \/ log[i].key # "" /\ log[j].ev = "effect" /\ log[j].key = log[i].key

\* C30: in the history of a call, every listener that is invoked from a
\* list after a removal from that list (offChangeState(key, action),
\* offChangeState(key) or offChangeAny made by a listener while the lists
\* are dispatched) is one that the removal left in the list.
C30_NotInvokedAfterRemoval ==
  \A i, j \in 1..Len(log) :
    (i < j /\ FromListOf(i, j)) => log[j].fn \in Range(log[i].arg)

-----------------------------------------------------------------------------
(* The reconciler *)

\* a call of copyNode has returned
Copied == op.name = "copyNode"
\* a call of copyNode has returned into after changing it
Patched ==
  /\ Copied /\ op.ret = op.into
  /\ Struct(op.before, op.into) # Struct(op.before, op.node)

\* C22: the tree copyNode returns has the tag, the attributes, the text and,
\* child by child, the subtrees that node had when the call began.
C22_ResultEqualsNode ==
  Copied => Struct(nodes, op.ret) = Struct(op.before, op.node)
\* into is returned; it had an attribute node lacks, more children than
\* node, and node has a child
C22_Witness ==
  /\ Patched
  /\ getAttributeNames(op.before, op.into) # {}
  /\ getAttributeNames(op.before, op.node) = {}
  /\ Len(op.before[op.into].kids) > Len(op.before[op.node].kids)
  /\ Len(op.before[op.node].kids) > 0

\* no node has other children or attributes than when the call began
Untouched ==
  /\ DOMAIN nodes = DOMAIN op.before
  /\ \A id \in DOMAIN nodes :
       /\ nodes[id].kids = op.before[id].kids
       /\ nodes[id].attrs = op.before[id].attrs

\* C21: when into and node have the same tag, attributes, text and
\* children, copyNode returns into and changes no attribute and no child
\* list of any node.
C21_EqualTreesUntouched ==
  (Copied /\ Struct(op.before, op.into) = Struct(op.before, op.node))
    => (op.ret = op.into /\ Untouched)

\* node is, after the call, where into was: the child of the parent of into
\* at the index of into, and into has no parent
Substituted ==
  LET parent == op.before[op.into].parent
  IN  /\ nodes[op.node].parent = parent
      /\ nodes[op.into].parent = 0
      /\ nodes[parent].kids =
           [i \in 1..Len(op.before[parent].kids) |->
              IF op.before[parent].kids[i] = op.into THEN op.node
              ELSE op.before[parent].kids[i]]

OneIsText(a, b) == (a.tag = TEXT_NODE) # (b.tag = TEXT_NODE)
EitherIsText(a, b) == a.tag = TEXT_NODE \/ b.tag = TEXT_NODE

\* C23, as the code has it: copyNode puts node in the place of into and
\* returns node exactly when the two are different objects and their tags
\* differ, or either of them is a text node (also when both are), or one is
\* owned by a component and the other is not, or both are owned by different
\* components. In every other case it returns into, which stays where it is.
C23_ReplacementRule ==
  Copied =>
    LET a == op.before[op.into]
        b == op.before[op.node]
        replace == /\ op.into # op.node
                   /\ \/ a.tag # b.tag
                      \/ EitherIsText(a, b)
                      \/ a.component # b.component
    IN  /\ replace => (op.ret = op.node /\ Substituted)
        /\ ~replace => /\ op.ret = op.into
                       /\ nodes[op.into].parent = a.parent
                       /\ nodes[a.parent].kids = op.before[a.parent].kids
\* a text node took the place of another text node
C23_Witness ==
  /\ Copied /\ op.into # op.node /\ op.ret = op.node /\ Substituted
  /\ op.before[op.into].tag = TEXT_NODE /\ op.before[op.node].tag = TEXT_NODE
  /\ op.before[op.into].component = op.before[op.node].component
\* C23, as stated: of the text nodes, only a pair of a text node and an
\* element is replaced.
C23_ReplacesTextByElementOnly ==
  Copied =>
    LET a == op.before[op.into]
        b == op.before[op.node]
        replace == /\ op.into # op.node
                   /\ \/ a.tag # b.tag
                      \/ OneIsText(a, b)
                      \/ a.component # b.component
    IN  /\ replace => (op.ret = op.node /\ Substituted)
        /\ ~replace => op.ret = op.into

\* the call put node, an element of one component, in the place of into, an
\* element of another
OwnerChanged ==
  /\ Copied /\ op.ret = op.node /\ op.into # op.node /\ Substituted
  /\ op.before[op.into].component # NoComp
  /\ op.before[op.node].component # NoComp
  /\ op.before[op.into].component # op.before[op.node].component
\* the history of the call has one registration for each binding of d, in
\* the order of the bindings
Asked(d) ==
  LET binds == SelectSeq(log, LAMBDA e : e.ev = "bind" /\ e.c = d)
  IN  /\ Len(binds) = Len(events[d])
      /\ \A i \in 1..Len(binds) :
           /\ binds[i].key = BindingsOf(d)[i].type
           /\ binds[i].fn = BindingsOf(d)[i].listener
\* the wrapper of every binding of d is a listener of the node el
RegisteredOn(d, el) ==
  \A i \in 1..Len(events[d]) :
    /\ BindingsOf(d)[i]._listener # NoWrapper
    /\ [type |-> BindingsOf(d)[i].type, fn |-> BindingsOf(d)[i]._listener]
         \in nodes[el].listeners
SameTag ==
  /\ op.before[op.into].tag = op.before[op.node].tag
  /\ op.before[op.into].tag # TEXT_NODE

\* C24, as the code has it: when copyNode puts an element of the component
\* D in the place of an element of another component and the two are
\* elements with the same tag, it calls D.putEvents(node): each binding of D
\* is registered on node. When the tags differ or the two are text nodes it
\* replaces without calling D, and node carries the bindings D's own render
\* registered on it.
C24_SubstitutionSameTag ==
  OwnerChanged =>
    LET d == op.before[op.node].component
    IN  /\ SameTag => Asked(d)
        /\ ~SameTag => Places("bind") = {}
        /\ RegisteredOn(d, op.node)
\* a div of c2, which has a binding, took the place of a div of c1
C24_Witness ==
  /\ OwnerChanged /\ SameTag
  /\ op.before[op.node].component = "c2" /\ Len(events["c2"]) > 0
  /\ Asked("c2")
\* C24, as stated: D is asked whether or not the tags differ.
C24_SubstitutionAnyTag ==
  OwnerChanged =>
    LET d == op.before[op.node].component
    IN  Asked(d) /\ RegisteredOn(d, op.node)

\* the indices at which node had a child and into had none
Appended ==
  (Len(op.before[op.into].kids) + 1)..Len(op.before[op.node].kids)

\* C25: when copyNode returns into after changing it, at every index where
\* node had a child and into had none, into has: for a child of node that no
\* component owns, a new node with the same tag, attributes, text and
\* children, while the child itself is still a child of node; for a child
\* that a component owns, that very child, still owned by the component.
C25_AppendsCopyOrOwned ==
  Patched =>
    \A i \in Appended :
      LET val == op.before[op.node].kids[i]
          new == nodes[op.into].kids[i]
      IN  /\ nodes[new].parent = op.into
          /\ Struct(nodes, new) = Struct(op.before, val)
          /\ IF op.before[val].component = NoComp
                THEN /\ new \notin DOMAIN op.before
                     /\ nodes[new].component = NoComp
                     /\ nodes[val].parent = op.node
                     /\ val \in Range(nodes[op.node].kids)
                ELSE /\ new = val
                     /\ nodes[val].component = op.before[val].component
\* into had no child; node had a child that no component owns and, after
\* it, a child that c2 owns
C25_Witness ==
  /\ Patched
  /\ op.before[op.into].kids = <<>>
  /\ Len(op.before[op.node].kids) = 2
  /\ op.before[op.before[op.node].kids[1]].component = NoComp
  /\ op.before[op.before[op.node].kids[2]].component = "c2"
  /\ nodes[op.into].kids[2] = op.before[op.node].kids[2]

\* the child val of node, at the index i, is one the call moves into into:
\* at an index where into had a child, when copyNode replaces that child by
\* val; at an index where into had none, when a component owns val
MovedOut(val) ==
  LET i == Position(op.before[op.node].kids, val)
      v == op.before[val]
  IN  IF i <= Len(op.before[op.into].kids)
        THEN LET c == op.before[op.before[op.into].kids[i]]
             IN  c.tag # v.tag \/ EitherIsText(c, v) \/ c.component # v.component
        ELSE v.component # NoComp

-----------------------------------------------------------------------------
(* Dispatch and removal *)

\* how often x is in seq
Occurrences(seq, x) == Cardinality({i \in 1..Len(seq) : seq[i] = x})
\* the functions the effects of SpecOff are taken from
OffActions == {"f", "g", "dropF", "clearA", "dropAnyF", "clearAny"}

\* C35: a setState that dispatches the list of the key a and the global
\* list invokes every listener at least as often as the listener is in its
\* list after the call (the registrations that were not removed) and at
\* most as often as it was in the list before the call.
C35_SurvivorsInvokedOnce ==
  [][(op'.name = "setState" /\ \E i \in 1..Len(log') : log'[i].ev = "template") =>
       \A fn \in OffActions :
         LET calls == Occurrences(SelectSeq(log', LAMBDA e : e.ev = "effect"
                                                          /\ e.key = "a"), 
                                  [ev |-> "effect", c |-> "c1", key |-> "a",
                                   fn |-> fn, arg |-> <<>>])
             anyCalls == Cardinality({i \in 1..Len(log') :
                                        log'[i].ev = "global" /\ log'[i].fn = fn})
         IN  /\ calls >= Occurrences(ListOf(al', "a"), fn)
             /\ calls <= Occurrences(ListOf(al, "a"), fn)
             /\ anyCalls >= Occurrences(globals'["c1"], fn)
             /\ anyCalls <= Occurrences(globals["c1"], fn)]_vars

-----------------------------------------------------------------------------
(* setState called while setState is dispatching *)

\* how many calls of setState made by effects are running at the place i of
\* the history
DepthAt(i) ==
  Cardinality({j \in 1..(i - 1) : log[j].ev = "call"})
    - Cardinality({j \in 1..(i - 1) : log[j].ev = "return"})
\* the place where the call made at the place i returns
ReturnOf(i) ==
  CHOOSE j \in (i + 1)..Len(log) :
    /\ log[j].ev = "return" /\ DepthAt(j) = DepthAt(i) + 1
    /\ \A k \in (i + 1)..(j - 1) : ~(log[k].ev = "return" /\ DepthAt(k) = DepthAt(i) + 1)
\* the calls of the template a call of setState makes itself, between the
\* places i and j of the history
OwnTemplates(i, j, depth) ==
  {k \in (i + 1)..(j - 1) : log[k].ev = "template" /\ DepthAt(k) = depth}

\* C31: in the history of a setState that changed a key and raised no error,
\* every call of setState made by an effect returns; between the call and
\* its return are its dispatches and, exactly when it changed the store, one
\* call of the template of its own; the template call of the outer setState
\* is the last one of the history and comes after every nested return; and
\* the live tree then shows the state the nested calls left.
C31_NestedBeforeOuterRender ==
  (IsSetState(op, "c1") /\ ChangedKeys(op.arg, 1) # <<>> /\ err = "none") =>
    /\ \A i \in Places("call") :
         /\ \E j \in (i + 1)..Len(log) :
              log[j].ev = "return" /\ DepthAt(j) = DepthAt(i) + 1
         /\ Cardinality(OwnTemplates(i, ReturnOf(i), DepthAt(i) + 1))
              = IF log[i].arg[1] THEN 1 ELSE 0
    /\ Cardinality(OwnTemplates(0, Len(log) + 1, 0)) = 1
    /\ \A k \in OwnTemplates(0, Len(log) + 1, 0) :
         \A i \in Places("call") \cup Places("return") : i < k
    /\ Struct(nodes, element["c1"]) = ExpectedView("c1")
\* an effect of a called setState({b: 1}) and changed b; the outer setState
\* rendered after it
C31_Witness ==
  /\ IsSetState(op, "c1") /\ err = "none"
  /\ \E i \in Places("call") : log[i].arg[1] /\ DepthAt(i) = 0
  /\ \E i \in Places("effect") : log[i].fn = "setB"
  /\ Cardinality(Places("template")) = 2
  /\ Read(objs, _state["c1"], "b") = Num(1)

\* C33: what an effect reads from c.state while setState(partial) is
\* dispatching, before any effect has called setState itself, is the store
\* as it was before the call with the value of partial for every known key
\* of partial.
C33_BatchVisible ==
  [][op'.name = "setState" =>
       \A i \in 1..Len(log') :
         (log'[i].ev = "peek" /\ \A j \in 1..i : log'[j].ev # "call") =>
           log'[i].arg[1] =
             [p \in Keys(objs, _state["c1"]) |->
                IF \E k \in 1..Len(op'.arg) : op'.arg[k].key = p
                  THEN op'.arg[CHOOSE k \in 1..Len(op'.arg) : op'.arg[k].key = p].val
                  ELSE objs[_state["c1"]][p]]]_vars
\* a setState that changed two keys; the first effect it called, for the
\* first of the two keys, read the state
C33_Witness ==
  /\ IsSetState(op, "c1") /\ Len(ChangedKeys(op.arg, 1)) = 2
  /\ Len(log) > 1
  /\ log[1].ev = "effect" /\ log[1].fn = "peek" /\ log[1].key = op.arg[1].key
  /\ log[2].ev = "peek"

\* each of the two components passes its b to the other
Mirrored ==
  \A c \in Comps : "b" \in DOMAIN al[c] /\ al[c]["b"] = <<"mirror">>

\* C39: when each of the two components passes its b to the other, a
\* setState({b: ...}) on either of them ends without an error, and when it
\* changed b the two stores hold the same contents for b afterwards.
C39_MirrorTerminates ==
  (Mirrored /\ op.name = "setState") =>
    /\ err = "none"
    /\ ChangedKeys(op.arg, 1) # <<>> =>
         Contents(objs, Read(objs, _state["c1"], "b"))
           = Contents(objs, Read(objs, _state["c2"], "b"))

\* C37: once new Comp() has returned for a factory whose definitions
\* callable calls this.addEventListener("click", k), the list of bindings of
\* the new instance holds a binding of click to k.
C37_DefinitionsBindingKept ==
  (op.name = "new" /\ op.c \in Comps /\ err = "none") =>
    \E i \in 1..Len(events[op.c]) :
      /\ bindings[events[op.c][i]].type = "click"
      /\ bindings[events[op.c][i]].listener = "k"

\* C32: when an event is dispatched on an element of the tree of c, every
\* listener of a binding of c with a selector that runs has a node matching
\* the selector on the way from the target up to the live root of c, and
\* every binding of c whose selector matches a node on that way runs.
C32_DelegationScoped ==
  op.name = "dispatchEvent" =>
    /\ \A i \in Places("event") :
         (log[i].c = op.c /\ log[i].arg[1] # "") => log[i].arg[1] \in op.scope
    /\ \A j \in 1..Len(events[op.c]) :
         bindings[events[op.c][j]].selector \in op.scope =>
           \E i \in Places("event") :
             log[i].c = op.c /\ log[i].arg[1] = bindings[events[op.c][j]].selector

\* C36: after a get or a setState that called the template of a mounted
\* component, every element of its live tree that has a value attribute has
\* a value property equal to that attribute.
C36_ValueFollowsAttribute ==
  (op.name \in {"get", "setState"} /\ Places("template") # {}) =>
    \A n \in ElementsUnder(nodes, element[op.c]) :
      nodes[n].attrs["value"] # NoAttr => nodes[n].value = nodes[n].attrs["value"]

\* C38: after the render of the parent c1 whose template put the element of
\* its child c2 first under the root (or under the <section> of the root),
\* the live tree of c1 holds that very element in that place, owned by c2.
C38_ChildElementPlaced ==
  op.name = "render" =>
    /\ nodes[SwapPlace(nodes, element["c1"], op.wrap)].kids[1] = op.child
    /\ nodes[op.child].component = "c2"

\* the call that just ended is one that renders c: a get, or a setState that
\* changed a key and returned
Mounts(c) ==
  /\ op.c = c /\ err = "none"
  /\ \/ op.name = "get"
     \/ op.name = "setState" /\ ChangedKeys(op.arg, 1) # <<>>
\* the live tree of c is the tree its template made, adopted as it is: the
\* history has the template and then the mount, the root is marked as the
\* element of c, has no parent and carries the wrapper of every binding
Adopted(c) ==
  /\ \E i \in Places("template"), j \in Places("mount") :
       i < j /\ log[i].c = c /\ log[j].c = c
  /\ Places("patch") \cup Places("replace") = {}
  /\ Struct(nodes, element[c]) = ExpectedView(c)
  /\ nodes[element[c]].component = c
  /\ nodes[element[c]].parent = 0
  /\ RegisteredOn(c, element[c])

\* C34: a component has no live tree when it is built; it gets one exactly in
\* a get or in a setState that changed a key and returned, by adopting the
\* tree its template made with every binding attached; a component that has
\* a live tree keeps having one.
C34_MountLifecycle ==
  [][\A c \in Comps :
       /\ (_state[c] = 0 /\ _state'[c] # 0) => element'[c] = 0
       /\ element[c] # 0 => element'[c] # 0
       /\ element[c] = 0 => ((element'[c] # 0) <=> Mounts(c)')
       /\ (element[c] = 0 /\ element'[c] # 0) => Adopted(c)']_vars
C34_Witness ==
  /\ op.name = "setState" /\ element[op.c] # 0 /\ Places("mount") # {}
  /\ Len(events[op.c]) = MaxBindings
  /\ Cardinality(Places("effect")) = 1


====
